---- MODULE Spec2Model ----
(***************************************************************************)
(* A model of the go-zdd engine: the hash-consed node table (NodeTable),   *)
(* the top-down constructor (ZDD.Build / buildRecursive) and the bottom-up *)
(* evaluators.                                                             *)
(*                                                                         *)
(* The node table is the open-addressing variant of the source; the        *)
(* map-based variant differs only in using Go's built-in map as the index. *)
(***************************************************************************)
EXTENDS Integers, Sequences, FiniteSets, TLC

(***************************************************************************)
(* Bounds of the model.                                                    *)
(***************************************************************************)
\* Largest node id the table may allocate (ids 3..MaxId are non-terminals).
MaxId == 4
\* Largest number of decision variables of an engine.
MaxVars == 3
\* How far beyond the number of variables the model follows the nesting of
\* buildRecursive calls; a build that nests deeper has run away (Go ends it
\* with a fatal stack overflow).
MaxDepth == 5

(***************************************************************************)
(* Program constants.                                                      *)
(***************************************************************************)
NullNode == 0
ZeroNode == 1
OneNode == 2
\* The width of the integer Count returns (int64).
CountBits == 64
\* NodeID and the hash are uint32.  Every id and hash the model computes is
\* far below 2^32, where uint32 arithmetic is exact, so no wrap-around is
\* written out.

\* The goroutines that call the node table concurrently.
Procs == {"g1", "g2"}
\* The value of the mutex word when nobody holds the write lock.
Unlocked == "none"

VARIABLES
    nt,        \* the NodeTable: nodes, hashTable, hashMask, next, stateCache
    last,      \* the last call a single caller made on the table, and its result
    mu,        \* holder of nt.mu's write lock, or Unlocked
    procs,     \* per goroutine: its position in AddNode and its arguments
    returned,  \* (node, id) pairs handed out by AddNode calls that took the lock
    reader,    \* the last concurrent GetNode call and what it returned
    spec,      \* the ConstraintSpec handed to Build
    zvars,     \* ZDD.vars
    config,    \* ZDD.config: Workers, MemoryLimit, Timeout
    root,      \* ZDD.root
    phase,     \* where Build is: idle, building, returned, done, failed, crashed
    stack,     \* the active buildRecursive calls, innermost last
    ret,       \* the last buildRecursive call that returned, and its value
    run,       \* which build of the harness is under way
    obs,       \* what the harness kept of the previous build
    ctx,       \* the context handed to Build: live, cancelled or expired
    err,       \* the error of the last Build call, or none
    pre,       \* the engine as it was when Build was last called
    evalr      \* the last evaluator call and what it returned

concVars == <<mu, procs, returned, reader>>
callerVars == <<last, mu, procs, returned, reader>>
engineVars == <<spec, zvars, config, root, phase, stack, ret, run, obs, ctx, err, pre, evalr>>
vars == <<nt, last, mu, procs, returned, reader,
          spec, zvars, config, root, phase, stack, ret, run, obs, ctx, err, pre, evalr>>

(***************************************************************************)
(* Node and NodeTable                                                      *)
(***************************************************************************)
Node(level, lo, hi) == [Level |-> level, Lo |-> lo, Hi |-> hi]

IsTerminal(n) == n.Level = 0

\* A zero-valued hashEntry.
EmptyEntry == [node |-> Node(0, NullNode, NullNode), id |-> NullNode, used |-> FALSE]

\* initialSize of NewNodeTable: the hash index starts with 1K entries.
InitialSize == 1024

\* nodes is indexed by NodeID from 0; a TLA+ sequence is indexed from 1.
NodeAt(ns, id) == ns[id + 1]

NewNodeTable ==
    [nodes      |-> << Node(0, NullNode, NullNode),
                       Node(0, NullNode, NullNode),
                       Node(0, NullNode, NullNode) >>,
     hashTable  |-> [i \in 0..(InitialSize - 1) |-> EmptyEntry],
     hashMask   |-> InitialSize - 1,
     next       |-> 3,
     stateCache |-> << >>]

Size(t) == t.next - 1

\* GetNode without the test for the null id.
GetNodeNoNullTest(t, id) ==
    IF id >= Len(t.nodes)
    THEN [ok |-> FALSE, node |-> Node(0, NullNode, NullNode)]
    ELSE [ok |-> TRUE, node |-> NodeAt(t.nodes, id)]

\* GetNode: the error, or the node stored under id.
GetNode(t, id) ==
    IF id = NullNode \/ id >= Len(t.nodes)
    THEN [ok |-> FALSE, node |-> Node(0, NullNode, NullNode)]
    ELSE [ok |-> TRUE, node |-> NodeAt(t.nodes, id)]

hashNode(node) ==
    LET h0 == node.Level
        h1 == h0 * 31 + node.Lo
    IN  h1 * 31 + node.Hi

nodesEqual(a, b) == a.Level = b.Level /\ a.Lo = b.Lo /\ a.Hi = b.Hi

TableLen(ht) == Cardinality(DOMAIN ht)

\* x & mask, for a mask that is a power of two minus one.
AndMask(x, mask) == x % (mask + 1)

countUsed(ht) == Cardinality({i \in DOMAIN ht : ht[i].used})

RECURSIVE findFrom(_, _, _, _)
findFrom(ht, mask, node, i) ==
    IF i >= TableLen(ht) THEN NullNode
    ELSE LET idx   == AndMask(hashNode(node) + i, mask)
             entry == ht[idx]
         IN  IF ~entry.used THEN NullNode
             ELSE IF nodesEqual(entry.node, node) THEN entry.id
             ELSE findFrom(ht, mask, node, i + 1)

\* The probing loop of insertNode: the first unused slot takes the entry.
RECURSIVE placeFrom(_, _, _, _, _)
placeFrom(ht, mask, node, id, i) ==
    IF i >= TableLen(ht) THEN ht
    ELSE LET idx == AndMask(hashNode(node) + i, mask)
         IN  IF ~ht[idx].used
             THEN [ht EXCEPT ![idx] = [node |-> node, id |-> id, used |-> TRUE]]
             ELSE placeFrom(ht, mask, node, id, i + 1)

NeedsResize(ht) == countUsed(ht) > (TableLen(ht) * 3) \div 4

RECURSIVE insertNode(_, _, _, _), rehashFrom(_, _, _, _)

\* The loop of resizeHashTable over the entries a..b of the old table, in
\* index order: those of the lower half of the range, and when they are
\* in the new table (which never gets smaller) those of the upper half.
rehashFrom(old, a, b, h) ==
    IF a > b THEN h
    ELSE IF a = b
    THEN IF old[a].used
         THEN insertNode(h.hashTable, h.hashMask, old[a].node, old[a].id)
         ELSE h
    ELSE LET m     == (a + b) \div 2
             lower == rehashFrom(old, a, m, h)
         IN  IF lower.hashMask >= h.hashMask
             THEN rehashFrom(old, m + 1, b, lower)
             ELSE lower

resizeHashTable(ht, mask) ==
    LET newSize == TableLen(ht) * 2
    IN  rehashFrom(ht, 0, TableLen(ht) - 1,
                   [hashTable |-> [i \in 0..(newSize - 1) |-> EmptyEntry],
                    hashMask  |-> newSize - 1])

\* An insertNode that leaves the index as it is.
insertNodeDropped(ht, mask, node, id) == [hashTable |-> ht, hashMask |-> mask]

insertNode(ht, mask, node, id) ==
    LET h == IF NeedsResize(ht) THEN resizeHashTable(ht, mask)
             ELSE [hashTable |-> ht, hashMask |-> mask]
    IN  [hashTable |-> placeFrom(h.hashTable, h.hashMask, node, id, 0),
         hashMask  |-> h.hashMask]

\* An id taken after the counter was read one too low.
FreshIdOffByOne(t) == t.next - 1

\* The id a new node gets.
FreshId(t) == t.next

\* Expand node storage if necessary, else store in place.
storeNode(ns, id, node) ==
    IF id >= Len(ns) THEN Append(ns, node)
    ELSE [ns EXCEPT ![id + 1] = node]

\* The allocating tail of AddNode: fresh id, store the node, index it.
allocNode(t, node) ==
    LET id == FreshId(t)
        ns == storeNode(t.nodes, id, node)
        h  == insertNode(t.hashTable, t.hashMask, node, id)
    IN  [t |-> [t EXCEPT !.nodes = ns, !.next = id + 1,
                         !.hashTable = h.hashTable, !.hashMask = h.hashMask],
         id |-> id]

\* A lookup that never finds the node.
findNodeMisses(t, node) == NullNode

\* A lookup of an engine that builds with several workers at once: each
\* looks the node up before another has indexed it, and misses.
findNodeRacing(t, node) ==
    IF config.Workers > 1 THEN NullNode
    ELSE findFrom(t.hashTable, t.hashMask, node, 0)

\* findNode: the id stored for the node, or NullNode.
findNode(t, node) == findFrom(t.hashTable, t.hashMask, node, 0)

\* The reduction rule tested on the wrong arc.
IsReducedOnLo(level, lo, hi) == lo = ZeroNode

\* The zero-suppression rule at the head of AddNode.
IsReduced(level, lo, hi) == hi = ZeroNode

\* AddNode run alone, from call to return: the table after it and the id.
AddNode(t, level, lo, hi) ==
    IF IsReduced(level, lo, hi) THEN [t |-> t, id |-> lo]
    ELSE LET node     == Node(level, lo, hi)
             existing == findNode(t, node)
         IN  IF existing # NullNode THEN [t |-> t, id |-> existing]
             ELSE allocNode(t, node)

(***************************************************************************)
(* Config and the options of NewZDD                                        *)
(***************************************************************************)
\* The functional options.  runtime.NumCPU() is the machine's; the model
\* fixes one value for it.
NumCPU == 4
WithParallel(workers) ==
    [field |-> "Workers", value |-> IF workers <= 0 THEN NumCPU ELSE workers]
WithMemoryLimit(bytes) == [field |-> "MemoryLimit", value |-> bytes]
WithTimeout(d) == [field |-> "Timeout", value |-> d]

\* The loop of newConfig: the options applied in order.
RECURSIVE applyOptions(_, _)
applyOptions(cfg, opts) ==
    IF opts = << >> THEN cfg
    ELSE applyOptions([cfg EXCEPT ![Head(opts).field] = Head(opts).value], Tail(opts))

\* newConfig: the defaults, then the options.
newConfig(opts) ==
    applyOptions([Workers |-> 1, MemoryLimit |-> 2^30, Timeout |-> 0], opts)

(***************************************************************************)
(* Inputs of direct callers of the table                                   *)
(***************************************************************************)
\* Level arguments; 0 is the level reserved for terminals.
Levels == {0, 1}
\* Arguments are ids the caller can hold: terminals and ids already stored.
ArgIds(t) == 1..(t.next - 1)

NoSpec == [vars |-> 0]
NoReturn == [state |-> [count |-> 0, transit |-> FALSE], level |-> -1, id |-> NullNode]
NoObs == [root |-> NullNode, nt |-> << >>]
NoEval == [op |-> "none"]
NoCall == [op |-> "none", level |-> 0, lo |-> NullNode, hi |-> NullNode,
           ret |-> NullNode, ok |-> TRUE, size |-> 0]
NoRead == [id |-> NullNode, ok |-> FALSE, node |-> Node(0, NullNode, NullNode), len |-> 0]
IdleProc == [pc |-> "idle", level |-> 0, lo |-> NullNode, hi |-> NullNode, id |-> NullNode]

\* The least load of the hash index at which insertNode resizes it: one
\* entry more than three quarters of those NewNodeTable allocates.
Prefilled == (InitialSize * 3) \div 4 + 1

\* The chain a caller stores with AddNode(a + 1, a + 1, a + 1) for a..b in
\* turn, the diagram of all subsets of the levels past those of Levels: the
\* first node has OneNode on both arcs, every other the node stored before
\* it, which got id a + 1.  The nodes of the lower half of the range are
\* stored first, and when they are in the table those of the upper half.
RECURSIVE AddChain(_, _, _)
AddChain(t, a, b) ==
    IF a > b THEN t
    ELSE IF a = b THEN AddNode(t, a + 1, a + 1, a + 1).t
    ELSE LET m     == (a + b) \div 2
             lower == AddChain(t, a, m)
         IN  IF Size(lower) >= Size(t)
             THEN AddChain(lower, m + 1, b)
             ELSE lower

\* A table whose hash index is at the load where the next insertion
\* resizes it.
LoadedTable(n) == AddChain(NewNodeTable, 1, n)

\* The nodes a table held when the callers of the model started.
StartNodes(t) == IF Size(t) >= Prefilled + 2 THEN Prefilled ELSE 0

\* The table may allocate for this call without passing the model's bound.
WithinBound(t, level, lo, hi) ==
    \/ IsReduced(level, lo, hi)
    \/ t.next - StartNodes(t) <= MaxId
    \/ findNode(t, Node(level, lo, hi)) # NullNode

(***************************************************************************)
(* One caller: any sequence of AddNode and GetNode calls                   *)
(***************************************************************************)
InitTable ==
    /\ nt = NewNodeTable
    /\ last = NoCall
    /\ mu = Unlocked
    /\ procs = [p \in Procs |-> IdleProc]
    /\ returned = {}
    /\ reader = NoRead
    /\ spec = NoSpec /\ zvars = 0 /\ config = newConfig(<< >>) /\ root = NullNode /\ phase = "idle"
    /\ stack = << >> /\ ret = NoReturn /\ run = 1 /\ obs = NoObs
    /\ ctx = "live" /\ err = "none" /\ pre = NoObs /\ evalr = NoEval

CallAddNode ==
    /\ \E level \in Levels, lo \in ArgIds(nt), hi \in ArgIds(nt) :
         /\ WithinBound(nt, level, lo, hi)
         /\ LET r == AddNode(nt, level, lo, hi)
            IN  /\ nt' = r.t
                /\ last' = [op |-> "AddNode", level |-> level, lo |-> lo, hi |-> hi,
                            ret |-> r.id, ok |-> TRUE, size |-> Size(nt)]
    /\ UNCHANGED <<concVars, engineVars>>

CallGetNode ==
    /\ \E id \in 0..(MaxId + 1) :
         LET g == GetNode(nt, id)
         IN  last' = [op |-> "GetNode", level |-> g.node.Level, lo |-> g.node.Lo,
                      hi |-> g.node.Hi, ret |-> id, ok |-> g.ok, size |-> Size(nt)]
    /\ UNCHANGED <<nt, concVars, engineVars>>

NextTable == CallAddNode \/ CallGetNode

SpecTable == InitTable /\ [][NextTable]_vars

(***************************************************************************)
(* Goroutines calling AddNode and GetNode on one table                     *)
(***************************************************************************)
\* The ids a goroutine can pass: the terminals and the ids AddNode has
\* returned.
HeldIds == {ZeroNode, OneNode} \cup {r.id : r \in returned}

\* A lock that excludes nobody.
CanLockAlways(m) == TRUE

\* nt.mu.Lock() succeeds only when nobody holds the lock.
CanLock(m) == m = Unlocked

\* AddNode is entered: the reduction rule returns at once; otherwise the
\* caller takes the write lock.
AddNodeEnter(p) ==
    /\ procs[p].pc = "idle"
    /\ \E level \in Levels, lo \in HeldIds, hi \in HeldIds :
         /\ WithinBound(nt, level, lo, hi)
         /\ IF IsReduced(level, lo, hi)
            THEN UNCHANGED <<mu, procs, returned>>
            ELSE /\ CanLock(mu)
                 /\ mu' = p
                 /\ procs' = [procs EXCEPT ![p] = [pc |-> "find", level |-> level,
                                                    lo |-> lo, hi |-> hi,
                                                    id |-> NullNode]]
                 /\ UNCHANGED returned
    /\ UNCHANGED <<nt, last, reader, engineVars>>

\* Under the lock: look the node up; a hit returns the stored id and unlocks.
AddNodeFind(p) ==
    /\ procs[p].pc = "find"
    /\ LET node     == Node(procs[p].level, procs[p].lo, procs[p].hi)
           existing == findNode(nt, node)
       IN  IF existing # NullNode
           THEN /\ procs' = [procs EXCEPT ![p] = IdleProc]
                /\ returned' = returned \cup {[node |-> node, id |-> existing]}
                /\ mu' = Unlocked
           ELSE /\ procs' = [procs EXCEPT ![p].pc = "insert"]
                /\ UNCHANGED <<returned, mu>>
    /\ UNCHANGED <<nt, last, reader, engineVars>>

\* Under the lock: take the next id and store the node under it.
AddNodeInsert(p) ==
    /\ procs[p].pc = "insert"
    /\ LET node == Node(procs[p].level, procs[p].lo, procs[p].hi)
           id   == FreshId(nt)
       IN  /\ nt' = [nt EXCEPT !.nodes = storeNode(nt.nodes, id, node), !.next = id + 1]
           /\ procs' = [procs EXCEPT ![p].pc = "index", ![p].id = id]
    /\ UNCHANGED <<last, mu, returned, reader, engineVars>>

\* Under the lock: insertNode, which resizes the hash index when it is
\* loaded beyond three quarters; then unlock and return the new id.
AddNodeIndex(p) ==
    /\ procs[p].pc = "index"
    /\ LET node == Node(procs[p].level, procs[p].lo, procs[p].hi)
           h    == insertNode(nt.hashTable, nt.hashMask, node, procs[p].id)
       IN  /\ nt' = [nt EXCEPT !.hashTable = h.hashTable, !.hashMask = h.hashMask]
           /\ returned' = returned \cup {[node |-> node, id |-> procs[p].id]}
    /\ procs' = [procs EXCEPT ![p] = IdleProc]
    /\ mu' = Unlocked
    /\ UNCHANGED <<last, reader, engineVars>>

\* A read lock that excludes nobody.
CanRLockAlways(m) == TRUE

\* nt.mu.RLock() succeeds only when nobody holds the write lock.
CanRLock(m) == m = Unlocked

\* A goroutine is about to write nt.nodes.
WritingNodes == \E p \in Procs : procs[p].pc = "insert"

\* What GetNode can return.  A read of nt.nodes that is not ordered with a
\* write of it is a data race, of which Go promises nothing: the slice
\* read may be the old one (the id out of its range), the slot a zero
\* value, or the node.
GetNodeResults(t, id) ==
    IF WritingNodes
    THEN {GetNode(t, id),
          [ok |-> FALSE, node |-> Node(0, NullNode, NullNode)],
          [ok |-> TRUE, node |-> Node(0, NullNode, NullNode)]}
    ELSE {GetNode(t, id)}

\* GetNode holds the read lock for its whole body; it reads an id some
\* AddNode call has returned.
GetNodeRead ==
    /\ CanRLock(mu)
    /\ \E r \in returned :
         \E g \in GetNodeResults(nt, r.id) :
            reader' = [id |-> r.id, ok |-> g.ok, node |-> g.node, len |-> Len(nt.nodes)]
    /\ UNCHANGED <<nt, last, mu, procs, returned, engineVars>>

NextConc ==
    \/ \E p \in Procs : AddNodeEnter(p)
    \/ \E p \in Procs : AddNodeFind(p)
    \/ \E p \in Procs : AddNodeInsert(p)
    \/ \E p \in Procs : AddNodeIndex(p)
    \/ GetNodeRead

SpecConc == InitTable /\ [][NextConc]_vars

(***************************************************************************)
(* The same goroutines on a table whose hash index is about to be resized  *)
(***************************************************************************)
\* The chain is stored; the goroutines have not called AddNode yet.
InitResize ==
    /\ nt = LoadedTable(Prefilled)
    /\ last = NoCall
    /\ mu = Unlocked
    /\ procs = [p \in Procs |-> IdleProc]
    /\ returned = {}
    /\ reader = NoRead
    /\ spec = NoSpec /\ zvars = 0 /\ config = newConfig(<< >>) /\ root = NullNode /\ phase = "idle"
    /\ stack = << >> /\ ret = NoReturn /\ run = 1 /\ obs = NoObs
    /\ ctx = "live" /\ err = "none" /\ pre = NoObs /\ evalr = NoEval

SpecResize == InitResize /\ [][NextConc]_vars

(***************************************************************************)
(* Constraint specifications                                               *)
(*                                                                         *)
(* A ConstraintSpec is caller code.  The model draws it from a family of   *)
(* counting specifications in the manner of SimpleSpec: the state is the   *)
(* number of variables taken so far, taking a variable beyond maxCount is  *)
(* a violation, either arc of a level can be forbidden outright, and a     *)
(* complete selection is valid when it took at least minCount variables.   *)
(* A specification may carry one skip directive, emitted on one arc of one *)
(* level in one state: as ServerTaskSpec emits them (not taken, to a lower *)
(* level), or, in a specification of the caller's own, with any target on  *)
(* either arc.  A specification that                                       *)
(* accepts everything may instead hand back the state it was given (one    *)
(* shared state), or a state that tells every path from every other (the   *)
(* taken levels as a bit mask).                                            *)
(***************************************************************************)
\* IntState: the count of taken variables.  The transit flag is only set by
\* a control specification while it walks the levels a directive jumps.
IntState(c) == [count |-> c, transit |-> FALSE]
TransitState(c, on) == [count |-> c, transit |-> on]

\* What GetChild hands back: a violation (the error), a state, or a state
\* wrapped in a skip directive.
Violation == [kind |-> "violation", state |-> IntState(0), skipTo |-> 0]
Plain(state) == [kind |-> "state", state |-> state, skipTo |-> 0]
NewSkipState(state, skipTo) == [kind |-> "skip", state |-> state, skipTo |-> skipTo]

NoSkip == [on |-> FALSE, level |-> 0, take |-> FALSE, count |-> 0, to |-> 0]

\* ctx.Done() is closed: the context was cancelled or its deadline passed.
Done(c) == c # "live"

Variables(sp) == sp.vars
InitialState(sp) == IntState(0)

\* CountConstraint{Min, Max}.Validate on a BasicState with one counter.
CountValidate(c, state, level, take) ==
    LET count == IF take THEN state.count + 1 ELSE state.count
    IN  count <= c.Max

\* CountConstraint.CanPrune
CountCanPrune(c, state, level) == state.count + level < c.Min

\* CompositeConstraintSpec.GetChild with one CountConstraint: the counter
\* is advanced, then the constraint validates the new state.
CompositeGetChild(sp, state, level, take) ==
    LET c == [Min |-> sp.minCount, Max |-> sp.maxCount]
        newState == IntState(IF take THEN state.count + 1 ELSE state.count)
    IN  IF ~CountValidate(c, newState, level, take) THEN Violation
        ELSE IF CountCanPrune(c, newState, level - 1) THEN Violation
        ELSE Plain(newState)

\* CompositeConstraintSpec.IsValid
CompositeIsValid(state) == state.count > 0

IsValid(sp, state) ==
    IF sp.kind = "composite" THEN CompositeIsValid(state)
    ELSE state.count >= sp.minCount

\* The arc on which a specification in the manner of ServerTaskSpec returns
\* its directive: the variable is not taken, and the target is a level
\* below the one asked about.
Fires(sp, state, level, take) ==
    /\ sp.kind = "counting"
    /\ sp.skip.on
    /\ level = sp.skip.level
    /\ ~take /\ ~sp.skip.take
    /\ state.count = sp.skip.count
    /\ sp.skip.to > 0 /\ sp.skip.to < level

\* The arc on which a specification of the caller's own returns the
\* directive it was written with; NewSkipState takes any SkipTo.
FiresAsWritten(sp, state, level, take) ==
    /\ sp.kind = "custom"
    /\ sp.skip.on
    /\ level = sp.skip.level
    /\ take = sp.skip.take
    /\ state.count = sp.skip.count

GetChild(sp, state, level, take) ==
    IF sp.kind = "composite" THEN CompositeGetChild(sp, state, level, take)
    ELSE IF sp.kind = "shared" THEN Plain(state)
    ELSE IF sp.kind = "path"
    THEN Plain(IntState(state.count + (IF take THEN 2^(level - 1) ELSE 0)))
    ELSE IF state.transit
    THEN IF take THEN Violation
         ELSE Plain(TransitState(state.count, level - 1 > sp.skip.to))
    ELSE IF (take /\ level \in sp.hiBlocked) \/ (~take /\ level \in sp.loBlocked)
    THEN Violation
    ELSE LET c == IF take THEN state.count + 1 ELSE state.count
         IN  IF take /\ c > sp.maxCount THEN Violation
             ELSE IF Fires(sp, state, level, take) \/ FiresAsWritten(sp, state, level, take)
             THEN IF sp.control
                  THEN Plain(TransitState(c, level - 1 > sp.skip.to))
                  ELSE NewSkipState(IntState(c), sp.skip.to)
             ELSE Plain(IntState(c))

\* GetChild as Build calls it, with the context: a specification that looks
\* at the context returns the context's error once it is done.
GetChildCtx(sp, c, state, level, take) ==
    IF sp.ctxAware /\ Done(c) THEN Violation
    ELSE GetChild(sp, state, level, take)

\* The specifications over n variables that emit no directive.
SpecFamily(n) ==
    { [vars |-> n, maxCount |-> m, minCount |-> k, loBlocked |-> lb,
       hiBlocked |-> hb, skip |-> NoSkip, control |-> FALSE, ctxAware |-> FALSE, kind |-> "counting"] :
         m \in 0..n, k \in 0..n, lb \in SUBSET (1..n), hb \in SUBSET (1..n) }

\* Specifications whose Variables() differs from the engine's.
MismatchFamily(n) ==
    { [vars |-> v, maxCount |-> v, minCount |-> 0, loBlocked |-> {},
       hiBlocked |-> {}, skip |-> NoSkip, control |-> FALSE, ctxAware |-> FALSE, kind |-> "counting"] :
         v \in (0..MaxVars) \ {n} }

\* The directives a ConstraintSpec can be written to return: NewSkipState
\* wraps any SkipTo, on either arc, the terminal level and the levels at or
\* above the emitting level included.
SkipDirectives(n) ==
    { [on |-> TRUE, level |-> l, take |-> b, count |-> c, to |-> t] :
         l \in 1..n, b \in BOOLEAN, c \in 0..1, t \in 0..(n + 1) }

\* The directives ServerTaskSpec's GetChild can return over n variables: on
\* the arc that does not take the variable, to a level nextLevel with
\* 0 < nextLevel < level.
ServerTaskDirectives(n) ==
    { d \in SkipDirectives(n) : ~d.take /\ d.to > 0 /\ d.to < d.level }

\* The specifications over n variables that emit one directive: those in
\* the manner of ServerTaskSpec, and the caller's own with every other
\* directive.
SkipFamily(n) ==
    { [vars |-> n, maxCount |-> m, minCount |-> k, loBlocked |-> {},
       hiBlocked |-> hb, skip |-> d, control |-> FALSE, ctxAware |-> FALSE,
       kind |-> IF d \in ServerTaskDirectives(n) THEN "counting" ELSE "custom"] :
         m \in 1..n, k \in 0..1, hb \in {{}, {1}}, d \in SkipDirectives(n) }

\* The control of a specification: the same specification, its directive
\* replaced by ordinary expansion through the levels the directive jumps,
\* "not taken" carrying the state on and "taken" a violation.
ControlOf(sp) == [sp EXCEPT !.control = TRUE]
ValidDirective(sp) == sp.skip.on /\ sp.skip.to < sp.skip.level

(***************************************************************************)
(* The construction memo (NodeTable.LookupState / NodeTable.CacheState)    *)
(***************************************************************************)
LookupState(t, state, level) ==
    IF <<state, level>> \in DOMAIN t.stateCache
    THEN t.stateCache[<<state, level>>]
    ELSE NullNode

CacheState(t, state, level, id) ==
    LET old == t.stateCache
        key == <<state, level>>
    IN  [t EXCEPT !.stateCache =
            [k \in (DOMAIN old) \cup {key} |-> IF k = key THEN id ELSE old[k]]]

(***************************************************************************)
(* ZDD.Build and ZDD.buildRecursive                                        *)
(*                                                                         *)
(* The recursion is followed call by call: stack holds one frame per       *)
(* active buildRecursive call, and pc is the frame's position in the body. *)
(***************************************************************************)
Frame(state, level) ==
    [state |-> state, level |-> level, pc |-> "enter",
     lo |-> NullNode, hi |-> NullNode, node |-> NullNode]

\* The deepest nesting the model follows on an engine over n variables.
DepthLimit(n) == n + MaxDepth

\* Where a call stands once both of its branches are known.
Adding == {"add", "cache", "return"}

Top == stack[Len(stack)]
SetTop(st, f) == [st EXCEPT ![Len(st)] = f]
Pop(st) == SubSeq(st, 1, Len(st) - 1)

\* The terminal a complete selection ends in.
TerminalForSwapped(valid) == IF valid THEN ZeroNode ELSE OneNode
TerminalFor(valid) == IF valid THEN OneNode ELSE ZeroNode

\* The branch a violation on the arc is pruned to.
PrunedOnHiOnly(take) == IF take THEN ZeroNode ELSE OneNode
PrunedBranch(take) == ZeroNode

\* The level a directive sends the recursion to, taken as the spec gave it.
SkipTargetIgnored(level, skipTo) == level - 1
SkipTarget(level, skipTo) == skipTo

\* One arc of buildRecursive: either the branch is known at once, or a
\* recursive call is due at (state, level).
Decided(id) == [call |-> FALSE, id |-> id, state |-> IntState(0), level |-> 0]
Recurse(state, level) == [call |-> TRUE, id |-> NullNode, state |-> state, level |-> level]

ExploreArc(sp, c, state, level, take) ==
    LET out == GetChildCtx(sp, c, state, level, take)
    IN  IF out.kind = "violation" THEN Decided(PrunedBranch(take))
        ELSE IF out.kind = "skip"
        THEN IF out.skipTo <= 0
             THEN Decided(TerminalFor(IsValid(sp, out.state)))
             ELSE Recurse(out.state, SkipTarget(level, out.skipTo))
        ELSE Recurse(out.state, level - 1)

\* The stack once the innermost call has returned v to its caller.
Deliver(st, v) ==
    LET rest == Pop(st)
    IN  IF rest = << >> THEN rest
        ELSE LET p == rest[Len(rest)]
             IN  SetTop(rest, IF p.pc = "waitLo"
                              THEN [p EXCEPT !.lo = v, !.pc = "hi"]
                              ELSE [p EXCEPT !.hi = v, !.pc = "add"])

\* The innermost call returns v.  The outermost return is to Build, which
\* has the root in hand and has not stored it yet.
Returns(v) ==
    /\ ret' = [state |-> Top.state, level |-> Top.level, id |-> v]
    /\ stack' = Deliver(stack, v)
    /\ phase' = IF Len(stack) = 1 THEN "returned" ELSE phase
    /\ UNCHANGED <<nt, root, spec, zvars, config, run, obs, ctx, err, pre, evalr, callerVars>>

\* The innermost call takes the value of an arc, or makes the call for it.
Arc(take, waitPc, nextPc) ==
    /\ LET a == ExploreArc(spec, ctx, Top.state, Top.level, take)
       IN  IF ~a.call
           THEN /\ stack' = SetTop(stack, IF take
                                          THEN [Top EXCEPT !.hi = a.id, !.pc = nextPc]
                                          ELSE [Top EXCEPT !.lo = a.id, !.pc = nextPc])
                /\ UNCHANGED phase
           ELSE IF Len(stack) < DepthLimit(zvars)
           THEN /\ stack' = Append(SetTop(stack, [Top EXCEPT !.pc = waitPc]),
                                   Frame(a.state, a.level))
                /\ UNCHANGED phase
           ELSE /\ phase' = "crashed"
                /\ UNCHANGED stack
    /\ UNCHANGED <<nt, spec, zvars, config, root, ret, run, obs, ctx, err, pre, evalr, callerVars>>

\* Build without the comparison of Variables() with the engine's count.
BuildUnchecked ==
    /\ phase = "idle"
    /\ pre' = [root |-> root, nt |-> nt]
    /\ phase' = "building"
    /\ err' = "none"
    /\ stack' = << Frame(InitialState(spec), zvars) >>
    /\ UNCHANGED <<nt, spec, zvars, config, root, ret, run, obs, ctx, evalr, callerVars>>

Build ==
    /\ phase = "idle"
    /\ pre' = [root |-> root, nt |-> nt]
    /\ IF Variables(spec) # zvars
       THEN phase' = "failed" /\ err' = "mismatch" /\ UNCHANGED stack
       ELSE /\ phase' = "building"
            /\ err' = "none"
            /\ stack' = << Frame(InitialState(spec), zvars) >>
    /\ UNCHANGED <<nt, spec, zvars, config, root, ret, run, obs, ctx, evalr, callerVars>>

Enter ==
    /\ phase = "building"
    /\ Top.pc = "enter"
    /\ IF Done(ctx)
       THEN /\ phase' = "failed"
            /\ err' = ctx
            /\ stack' = << >>
            /\ UNCHANGED <<nt, spec, zvars, config, root, ret, run, obs, ctx, pre, evalr, callerVars>>
       ELSE IF Top.level = 0
       THEN Returns(TerminalFor(IsValid(spec, Top.state)))
       ELSE IF LookupState(nt, Top.state, Top.level) # NullNode
       THEN Returns(LookupState(nt, Top.state, Top.level))
       ELSE /\ stack' = SetTop(stack, [Top EXCEPT !.pc = "lo"])
            /\ UNCHANGED <<nt, spec, zvars, config, root, phase, ret, run, obs, ctx, err, pre, evalr, callerVars>>

ExploreLo ==
    /\ phase = "building"
    /\ Top.pc = "lo"
    /\ Arc(FALSE, "waitLo", "hi")

ExploreHi ==
    /\ phase = "building"
    /\ Top.pc = "hi"
    /\ Arc(TRUE, "waitHi", "add")

\* Every AddNode of the construction publishes its node as the root.
AddNodeCallPublishing ==
    /\ phase = "building"
    /\ Top.pc = "add"
    /\ LET r == AddNode(nt, Top.level, Top.lo, Top.hi)
       IN  /\ nt' = r.t
           /\ root' = r.id
           /\ stack' = SetTop(stack, [Top EXCEPT !.node = r.id, !.pc = "cache"])
    /\ UNCHANGED <<spec, zvars, config, phase, ret, run, obs, ctx, err, pre, evalr, callerVars>>

\* Both branches are known: the call adds the node.  AddNode holds the
\* table's lock from its lookup to its return.
AddNodeCall ==
    /\ phase = "building"
    /\ Top.pc = "add"
    /\ LET r == AddNode(nt, Top.level, Top.lo, Top.hi)
       IN  /\ nt' = r.t
           /\ stack' = SetTop(stack, [Top EXCEPT !.node = r.id, !.pc = "cache"])
    /\ UNCHANGED <<spec, zvars, config, root, phase, ret, run, obs, ctx, err, pre, evalr, callerVars>>

\* The call keeps the node under its (state, level) in the memo.
CacheStateCall ==
    /\ phase = "building"
    /\ Top.pc = "cache"
    /\ nt' = CacheState(nt, Top.state, Top.level, Top.node)
    /\ stack' = SetTop(stack, [Top EXCEPT !.pc = "return"])
    /\ UNCHANGED <<spec, zvars, config, root, phase, ret, run, obs, ctx, err, pre, evalr, callerVars>>

\* The call returns its node.
ReturnNode ==
    /\ phase = "building"
    /\ Top.pc = "return"
    /\ Returns(Top.node)

\* buildRecursive has returned without error: Build stores the root and
\* returns nil.
Publish ==
    /\ phase = "returned"
    /\ root' = ret.id
    /\ phase' = "done"
    /\ UNCHANGED <<nt, spec, zvars, config, stack, ret, run, obs, ctx, err, pre, evalr, callerVars>>

\* NewZDD: a fresh engine over n variables.
NewZDD(n, opts) ==
    [root |-> NullNode, nodes |-> NewNodeTable, vars |-> IF n < 0 THEN 0 ELSE n,
     config |-> newConfig(opts)]

InitCallers ==
    /\ last = NoCall
    /\ mu = Unlocked
    /\ procs = [p \in Procs |-> IdleProc]
    /\ returned = {}
    /\ reader = NoRead

Init ==
    /\ InitCallers
    /\ \E n \in 0..MaxVars :
         LET z == NewZDD(n, << >>)
         IN  /\ nt = z.nodes /\ zvars = z.vars /\ config = z.config /\ root = z.root
             /\ spec \in SpecFamily(n) \cup MismatchFamily(n)
    /\ phase = "idle" /\ stack = << >> /\ ret = NoReturn
    /\ run = 1 /\ obs = NoObs
    /\ ctx = "live" /\ err = "none" /\ pre = NoObs /\ evalr = NoEval

Next == Build \/ Enter \/ ExploreLo \/ ExploreHi \/ AddNodeCall \/ CacheStateCall \/ ReturnNode \/ Publish

Spec == Init /\ [][Next]_vars

(***************************************************************************)
(* Evaluators                                                              *)
(***************************************************************************)
\* CountEvaluator.countRecursive.  The diagrams counted with it have fewer
\* than 2^31 paths, where the int64 sums are exact; SpecWide counts in the
\* full width.
RECURSIVE countRecursive(_, _)
countRecursive(t, id) ==
    IF id = ZeroNode THEN [ok |-> TRUE, n |-> 0]
    ELSE IF id = OneNode THEN [ok |-> TRUE, n |-> 1]
    ELSE LET g == GetNode(t, id)
         IN  IF ~g.ok THEN [ok |-> FALSE, n |-> 0]
             ELSE LET l == countRecursive(t, g.node.Lo)
                      h == countRecursive(t, g.node.Hi)
                  IN  IF ~l.ok \/ ~h.ok THEN [ok |-> FALSE, n |-> 0]
                      ELSE [ok |-> TRUE, n |-> l.n + h.n]

\* ZDD.Count
Count(t, r) == IF r = NullNode THEN [ok |-> TRUE, n |-> 0] ELSE countRecursive(t, r)

\* sort.Ints
RECURSIVE SortInts(_)
SortInts(s) ==
    IF s = << >> THEN s
    ELSE LET rest == SortInts(Tail(s))
             x == Head(s)
             k == Cardinality({i \in 1..Len(rest) : rest[i] < x})
         IN  SubSeq(rest, 1, k) \o <<x>> \o SubSeq(rest, k + 1, Len(rest))

\* A cost vector is indexed from 0, as the Go slice is.
CostLen(costs) == Cardinality(DOMAIN costs)

RECURSIVE enumerateSolutions(_, _, _, _, _)
enumerateSolutions(t, id, currentVars, currentCost, costs) ==
    IF id = ZeroNode THEN [ok |-> TRUE, sols |-> << >>]
    ELSE IF id = OneNode
    THEN [ok |-> TRUE,
          sols |-> << [Variables |-> SortInts(currentVars), Cost |-> currentCost] >>]
    ELSE LET g == GetNode(t, id)
         IN  IF ~g.ok THEN [ok |-> FALSE, sols |-> << >>]
             ELSE LET lo == enumerateSolutions(t, g.node.Lo, currentVars,
                                               currentCost, costs)
                      newCost == IF g.node.Level > 0 /\ g.node.Level < CostLen(costs)
                                 THEN currentCost + costs[g.node.Level]
                                 ELSE currentCost
                      hi == enumerateSolutions(t, g.node.Hi,
                                               Append(currentVars, g.node.Level),
                                               newCost, costs)
                  IN  IF ~lo.ok \/ ~hi.ok THEN [ok |-> FALSE, sols |-> << >>]
                      ELSE [ok |-> TRUE, sols |-> lo.sols \o hi.sols]

\* The longest slice sort.Slice sorts by insertion.
maxInsertion == 12

\* The insertion sort of sort.Slice: an element moves left while its Cost
\* is less than its neighbour's, so equal costs stay in the order of
\* enumeration.
RECURSIVE insertionSort(_)
insertionSort(s) ==
    IF Len(s) <= 1 THEN s
    ELSE LET init == insertionSort(SubSeq(s, 1, Len(s) - 1))
             x == s[Len(s)]
             k == Cardinality({i \in 1..Len(init) : init[i].Cost <= x.Cost})
         IN  SubSeq(init, 1, k) \o <<x>> \o SubSeq(init, k + 1, Len(init))

\* The first k elements of the orders of the elements s[i], i in rem, with
\* costs that do not decrease: each begins with an element of least cost
\* and goes on with an order of the others.  Of equal elements the first is
\* taken, as taking another gives the same slice.
RECURSIVE costOrders(_, _, _)
costOrders(s, rem, k) ==
    IF rem = {} \/ k <= 0 THEN {<< >>}
    ELSE LET least == {i \in rem : \A j \in rem : s[i].Cost <= s[j].Cost}
             firsts == {i \in least : \A j \in least : s[j] = s[i] => i <= j}
         IN  UNION {{<<s[i]>> \o rest : rest \in costOrders(s, rem \ {i}, k - 1)} :
                       i \in firsts}

\* sort.Slice by Cost, and the first k elements of the slices the call can
\* leave.  Up to maxInsertion elements Go sorts by insertion, which leaves
\* one slice.  A longer slice is sorted by pattern-defeating quicksort,
\* which is not stable: it leaves the elements with costs that do not
\* decrease, those of equal cost in an order the contract of sort.Slice
\* does not fix.
SortAndCut(s, k) ==
    IF Len(s) <= maxInsertion
    THEN {IF Len(s) > k THEN SubSeq(insertionSort(s), 1, k) ELSE insertionSort(s)}
    ELSE costOrders(s, 1..Len(s), k)

\* sort.Slice by Cost: the slices the call can leave.
SortByCost(s) == SortAndCut(s, Len(s))

\* KBestEvaluator.Evaluate without the cut to the first K solutions.
KBestEvaluateNoCut(t, r, nvars, k, costs) ==
    IF r = NullNode \/ k <= 0
    THEN {[ok |-> TRUE, err |-> "none", Solutions |-> << >>, Count |-> 0]}
    ELSE IF CostLen(costs) <= nvars
    THEN {[ok |-> FALSE, err |-> "insufficient cost data", Solutions |-> << >>, Count |-> 0]}
    ELSE LET e == enumerateSolutions(t, r, << >>, 0, costs)
         IN  IF ~e.ok
             THEN {[ok |-> FALSE, err |-> "ErrInvalidNode", Solutions |-> << >>, Count |-> 0]}
             ELSE {[ok |-> TRUE, err |-> "none",
                    Solutions |-> sorted,
                    Count |-> Len(e.sols)] : sorted \in SortByCost(e.sols)}

\* KBestEvaluator.Evaluate
KBestEvaluate(t, r, nvars, k, costs) ==
    IF r = NullNode \/ k <= 0
    THEN {[ok |-> TRUE, err |-> "none", Solutions |-> << >>, Count |-> 0]}
    ELSE IF CostLen(costs) <= nvars
    THEN {[ok |-> FALSE, err |-> "insufficient cost data", Solutions |-> << >>, Count |-> 0]}
    ELSE LET e == enumerateSolutions(t, r, << >>, 0, costs)
         IN  IF ~e.ok
             THEN {[ok |-> FALSE, err |-> "ErrInvalidNode", Solutions |-> << >>, Count |-> 0]}
             ELSE {[ok |-> TRUE, err |-> "none",
                    Solutions |-> cut,
                    Count |-> Len(e.sols)] : cut \in SortAndCut(e.sols, k)}

\* The cost optimalRecursive gives ZeroNode: float64(1e9).
InfeasibleCost == 10^9

\* CostEvaluator.optimalRecursive
RECURSIVE optimalRecursive(_, _, _)
optimalRecursive(t, id, costs) ==
    IF id = ZeroNode THEN [ok |-> TRUE, cost |-> InfeasibleCost, sol |-> << >>]
    ELSE IF id = OneNode THEN [ok |-> TRUE, cost |-> 0, sol |-> << >>]
    ELSE LET g == GetNode(t, id)
         IN  IF ~g.ok THEN [ok |-> FALSE, cost |-> 0, sol |-> << >>]
             ELSE LET l == optimalRecursive(t, g.node.Lo, costs)
                      h == optimalRecursive(t, g.node.Hi, costs)
                      hiCost == IF g.node.Level > 0 /\ g.node.Level < CostLen(costs)
                                THEN h.cost + costs[g.node.Level]
                                ELSE h.cost
                  IN  IF ~l.ok \/ ~h.ok THEN [ok |-> FALSE, cost |-> 0, sol |-> << >>]
                      ELSE IF l.cost <= hiCost
                      THEN [ok |-> TRUE, cost |-> l.cost, sol |-> l.sol]
                      ELSE [ok |-> TRUE, cost |-> hiCost,
                            sol |-> Append(h.sol, g.node.Level)]

\* CostEvaluator.Evaluate
OptimalEvaluate(t, r, nvars, costs) ==
    IF r = NullNode
    THEN [ok |-> TRUE, err |-> "none", Found |-> FALSE, Variables |-> << >>, Cost |-> 0]
    ELSE IF CostLen(costs) <= nvars
    THEN [ok |-> FALSE, err |-> "insufficient cost data", Found |-> FALSE,
          Variables |-> << >>, Cost |-> 0]
    ELSE LET o == optimalRecursive(t, r, costs)
         IN  IF ~o.ok
             THEN [ok |-> FALSE, err |-> "ErrInvalidNode", Found |-> FALSE,
                   Variables |-> << >>, Cost |-> 0]
             ELSE IF Len(o.sol) = 0 /\ o.cost = 0 /\ r = ZeroNode
             THEN [ok |-> TRUE, err |-> "none", Found |-> FALSE,
                   Variables |-> << >>, Cost |-> 0]
             ELSE [ok |-> TRUE, err |-> "none", Found |-> TRUE,
                   Variables |-> o.sol, Cost |-> o.cost]

\* ZDD.FindKBest
FindKBest(t, r, nvars, k, costs) ==
    {[ok |-> res.ok, err |-> res.err, Solutions |-> res.Solutions] :
        res \in KBestEvaluate(t, r, nvars, k, costs)}

(***************************************************************************)
(* A specification with a skip directive, and then its control on a fresh  *)
(* engine                                                                  *)
(***************************************************************************)
InitSkip ==
    /\ InitCallers
    /\ \E n \in 1..MaxVars :
         LET z == NewZDD(n, << >>)
         IN  /\ nt = z.nodes /\ zvars = z.vars /\ config = z.config /\ root = z.root
             /\ spec \in SkipFamily(n)
    /\ phase = "idle" /\ stack = << >> /\ ret = NoReturn
    /\ run = 1 /\ obs = NoObs
    /\ ctx = "live" /\ err = "none" /\ pre = NoObs /\ evalr = NoEval

\* The first build is kept aside, and the control is handed to a new engine.
StartControl ==
    /\ phase = "done"
    /\ run = 1
    /\ ValidDirective(spec)
    /\ obs' = [root |-> root, nt |-> nt]
    /\ LET z == NewZDD(zvars, << >>)
       IN  nt' = z.nodes /\ zvars' = z.vars /\ config' = z.config /\ root' = z.root
    /\ spec' = ControlOf(spec)
    /\ run' = 2
    /\ phase' = "idle"
    /\ ret' = NoReturn
    /\ UNCHANGED <<stack, ctx, err, pre, evalr, callerVars>>

NextSkip == Build \/ Enter \/ ExploreLo \/ ExploreHi \/ AddNodeCall \/ CacheStateCall \/ ReturnNode \/ Publish \/ StartControl

SpecSkip == InitSkip /\ [][NextSkip]_vars

(***************************************************************************)
(***************************************************************************)
(* Build under a context that is cancelled or runs out of time             *)
(***************************************************************************)
\* The specifications built under cancellation: counting specifications,
\* some of which look at the context in GetChild.
CancelFamily(n) ==
    { [sp EXCEPT !.ctxAware = a] :
         sp \in {f \in SpecFamily(n) : f.loBlocked = {} /\ f.minCount = 0},
         a \in BOOLEAN }

InitCancel ==
    /\ InitCallers
    /\ \E n \in 0..MaxVars, opts \in {<< >>, << WithTimeout(1) >>} :
         LET z == NewZDD(n, opts)
         IN  /\ nt = z.nodes /\ zvars = z.vars /\ config = z.config /\ root = z.root
             /\ spec \in CancelFamily(n)
    /\ phase = "idle" /\ stack = << >> /\ ret = NoReturn
    /\ run = 1 /\ obs = NoObs
    /\ ctx = "live" /\ err = "none" /\ pre = NoObs /\ evalr = NoEval

\* The caller cancels the context, before Build or while it runs.
Cancel ==
    /\ ctx = "live"
    /\ phase \in {"idle", "building", "returned"}
    /\ ctx' = "cancelled"
    /\ UNCHANGED <<nt, spec, zvars, config, root, phase, stack, ret, run, obs, err, pre, evalr, callerVars>>

\* The deadline Build derived from config.Timeout passes while Build runs.
Expire ==
    /\ config.Timeout > 0
    /\ ctx = "live"
    /\ phase \in {"building", "returned"}
    /\ ctx' = "expired"
    /\ UNCHANGED <<nt, spec, zvars, config, root, phase, stack, ret, run, obs, err, pre, evalr, callerVars>>

NextCancel ==
    Build \/ Enter \/ ExploreLo \/ ExploreHi \/ AddNodeCall \/ CacheStateCall \/ ReturnNode \/ Publish \/ Cancel \/ Expire

SpecCancel == InitCancel /\ [][NextCancel]_vars

(***************************************************************************)
(* A second Build on the same engine                                       *)
(***************************************************************************)
\* The specifications built one after the other: at least minCount and at
\* most maxCount of the n variables.
RebuildFamily(n) ==
    {f \in SpecFamily(n) : f.loBlocked = {} /\ f.hiBlocked = {}}

InitRebuild ==
    /\ InitCallers
    /\ \E n \in 0..MaxVars :
         LET z == NewZDD(n, << >>)
         IN  /\ nt = z.nodes /\ zvars = z.vars /\ config = z.config /\ root = z.root
             /\ spec \in RebuildFamily(n)
    /\ phase = "idle" /\ stack = << >> /\ ret = NoReturn
    /\ run = 1 /\ obs = NoObs
    /\ ctx = "live" /\ err = "none" /\ pre = NoObs /\ evalr = NoEval

\* The caller hands another specification, over the same variables or over
\* another number of them, to the engine that has built the first one; the
\* engine is left as it is.
Rebuild ==
    /\ phase = "done"
    /\ run = 1
    /\ \E b \in (RebuildFamily(zvars) \cup MismatchFamily(zvars)) \ {spec} : spec' = b
    /\ obs' = [root |-> root, nt |-> nt]
    /\ run' = 2
    /\ phase' = "idle"
    /\ ret' = NoReturn
    /\ UNCHANGED <<nt, zvars, config, root, stack, ctx, err, pre, evalr, callerVars>>

NextRebuild == Build \/ Enter \/ ExploreLo \/ ExploreHi \/ AddNodeCall \/ CacheStateCall \/ ReturnNode \/ Publish \/ Rebuild

SpecRebuild == InitRebuild /\ [][NextRebuild]_vars

(* Properties of the node table                                            *)
(***************************************************************************)
StoredIds(t) == 1..(t.next - 1)
NonTerminalIds(t) == 3..(t.next - 1)

\* C1: zero-suppression.  An AddNode call with hi = ZeroNode returns lo and
\* leaves Size as it was, and no stored non-terminal has Hi = ZeroNode.
C1_ZeroSuppression ==
    /\ (last.op = "AddNode" /\ last.hi = ZeroNode)
          => (last.ret = last.lo /\ Size(nt) = last.size)
    /\ \A id \in NonTerminalIds(nt) : NodeAt(nt.nodes, id).Hi # ZeroNode

\* A reduced call whose lo is a stored non-terminal has returned.
C1_Witness ==
    /\ last.op = "AddNode" /\ last.hi = ZeroNode
    /\ last.lo >= 3 /\ last.ret = last.lo

\* C2: structural sharing.  Stored non-terminal ids are equal exactly when
\* their triples are equal; the id AddNode returns holds the triple asked
\* for; AddNode on a stored triple returns its id and changes nothing.
C2_StructuralSharing ==
    /\ \A a, b \in NonTerminalIds(nt) :
          (a = b) <=> (NodeAt(nt.nodes, a) = NodeAt(nt.nodes, b))
    /\ (last.op = "AddNode" /\ last.hi # ZeroNode)
          => /\ NodeAt(nt.nodes, last.ret) = Node(last.level, last.lo, last.hi)
             /\ (last.ret <= last.size => Size(nt) = last.size)
    /\ \A id \in NonTerminalIds(nt) :
          LET n == NodeAt(nt.nodes, id)
              r == AddNode(nt, n.Level, n.Lo, n.Hi)
          IN  r.id = id /\ r.t = nt

\* AddNode was called again with a stored triple, found through the index.
C2_Witness ==
    /\ last.op = "AddNode" /\ last.hi # ZeroNode
    /\ last.ret >= 3 /\ last.ret <= last.size /\ Size(nt) = last.size
    /\ countUsed(nt.hashTable) = 2
    /\ nt.next = 5

TerminalWellFormed(t) ==
    \A id \in StoredIds(t) :
        IsTerminal(NodeAt(t.nodes, id)) <=> (id \in {ZeroNode, OneNode})

\* C4 as stated: after any sequence of AddNode calls, with any level
\* argument, Level = 0 exactly for the ids ZeroNode and OneNode.
C4_AnyLevelArgument == TerminalWellFormed(nt)

\* C4 amended: an AddNode call whose level argument is at least 1 keeps
\* terminal well-formedness (and a fresh table has it).
C4_LevelAtLeastOne ==
    [][ (last'.op = "AddNode" /\ last'.level >= 1 /\ TerminalWellFormed(nt))
           => TerminalWellFormed(nt') ]_vars

\* A call with level >= 1 allocated a node in a well-formed table.
C4_Witness ==
    /\ last.op = "AddNode" /\ last.level >= 1
    /\ Size(nt) = last.size + 1
    /\ TerminalWellFormed(nt)

\* C6: AddNode is linearisable.  Calls with the same triple got the same
\* id, calls with different triples got different ids, and one node was
\* allocated for each triple handed out.
C6_Linearisable ==
    /\ \A a, b \in returned : (a.node = b.node) <=> (a.id = b.id)
    /\ \A r \in returned :
          Cardinality({id \in NonTerminalIds(nt) : NodeAt(nt.nodes, id) = r.node}) = 1

\* Two triples were handed out while another call is inside AddNode.
C6_Witness ==
    /\ Cardinality(returned) >= 2
    /\ \E p \in Procs : procs[p].pc = "find" /\
          \E r \in returned : r.node = Node(procs[p].level, procs[p].lo, procs[p].hi)

\* C7: no reader observes a partial node.  The node array never shrinks;
\* every id AddNode has returned reads back as the triple it was returned
\* for and is found under it in the hash index; the step that resizes the
\* index doubles it, leaves the node array as it is, and leaves every id
\* stored before it reading as before and every stored node found under
\* its id; and what a reader got is a triple with the id AddNode returned
\* for it.
C7_NoPartialNode ==
    [][ /\ Len(nt'.nodes) >= Len(nt.nodes)
        /\ \A r \in returned' :
              /\ GetNode(nt', r.id) = [ok |-> TRUE, node |-> r.node]
              /\ findNode(nt', r.node) = r.id
        /\ TableLen(nt'.hashTable) # TableLen(nt.hashTable) =>
              /\ TableLen(nt'.hashTable) = 2 * TableLen(nt.hashTable)
              /\ nt'.nodes = nt.nodes
              /\ \A id \in 1..(nt.next - 1) :
                    /\ GetNode(nt', id) = GetNode(nt, id)
                    /\ id > OneNode => findNode(nt', NodeAt(nt.nodes, id)) = id
        /\ reader' # NoRead =>
              /\ reader'.ok
              /\ [node |-> reader'.node, id |-> reader'.id] \in returned' ]_vars

\* The hash index has been resized by the call that returned the first id
\* past the chain; after that a second node was stored, a reader got the
\* node of the first id from the longer array, and a goroutine is inside
\* AddNode again.
C7_Witness ==
    /\ TableLen(nt.hashTable) = 2 * InitialSize
    /\ countUsed(nt.hashTable) = Prefilled + 2
    /\ reader.ok /\ reader.id = Prefilled + 3 /\ reader.len = Prefilled + 5
    /\ \E p \in Procs : procs[p].pc # "idle"

(***************************************************************************)
(* Properties of Build                                                     *)
(***************************************************************************)
\* The selection T of levels is accepted from (state, level) downwards: no
\* arc on the way is a violation and the final state is valid.
RECURSIVE AcceptsFrom(_, _, _, _)
AcceptsFrom(sp, T, state, level) ==
    IF level = 0 THEN IsValid(sp, state)
    ELSE LET out == GetChild(sp, state, level, level \in T)
         IN  out.kind = "state" /\ AcceptsFrom(sp, T, out.state, level - 1)

Accepted(sp) ==
    {T \in SUBSET (1..Variables(sp)) : AcceptsFrom(sp, T, InitialState(sp), Variables(sp))}

RECURSIVE Binomial(_, _)
Binomial(n, k) ==
    IF k = 0 THEN 1
    ELSE IF n = 0 THEN 0
    ELSE Binomial(n - 1, k - 1) + Binomial(n - 1, k)

RECURSIVE SumBinomial(_, _)
SumBinomial(n, m) == IF m < 0 THEN 0 ELSE Binomial(n, m) + SumBinomial(n, m - 1)

\* The specification "at most maxCount of the variables".
IsAtMost(sp) ==
    sp.loBlocked = {} /\ sp.hiBlocked = {} /\ sp.minCount = 0 /\ ~sp.skip.on

BothViolate(sp, state, level) ==
    /\ GetChild(sp, state, level, FALSE).kind = "violation"
    /\ GetChild(sp, state, level, TRUE).kind = "violation"

\* C3: path-count law.  After a successful Build of a specification without
\* skip directives, Count() is the number of subsets of {1..N} the
\* specification accepts; for "at most m of N" that is the sum of C(N,i),
\* i = 0..m.
C3_PathCountLaw ==
    phase = "done" =>
        /\ Count(nt, root) = [ok |-> TRUE, n |-> Cardinality(Accepted(spec))]
        /\ IsAtMost(spec) =>
              Count(nt, root).n = SumBinomial(Variables(spec), spec.maxCount)

\* "At most 2 of 3" has been built and counts 1 + 3 + 3 selections.
C3_Witness ==
    /\ phase = "done"
    /\ IsAtMost(spec) /\ Variables(spec) = MaxVars /\ spec.maxCount = MaxVars - 1
    /\ Count(nt, root).n = 2^MaxVars - 1
    /\ Size(nt) > 2

\* C8: a violation returned by GetChild for a branch makes that branch
\* ZeroNode and never makes Build fail; when both branches of (state, level)
\* are violations, the expansion of (state, level) returns ZeroNode.
C8_ViolationPrunes ==
    /\ \A i \in 1..Len(stack) :
         LET f == stack[i]
         IN  /\ (f.pc \in {"hi", "waitHi"} \cup Adding
                   /\ GetChild(spec, f.state, f.level, FALSE).kind = "violation")
                => f.lo = ZeroNode
             /\ (f.pc \in Adding
                   /\ GetChild(spec, f.state, f.level, TRUE).kind = "violation")
                => f.hi = ZeroNode
    /\ phase = "failed" => Variables(spec) # zvars
    /\ phase # "crashed"
    /\ (ret.level > 0 /\ BothViolate(spec, ret.state, ret.level)) => ret.id = ZeroNode

\* A build has finished with a non-terminal root although one expansion in
\* it had both branches violated and another had exactly one.
C8_Witness ==
    /\ phase = "done"
    /\ root > OneNode
    /\ \E k \in DOMAIN nt.stateCache :
         BothViolate(spec, k[1], k[2]) /\ nt.stateCache[k] = ZeroNode
    /\ \E k \in DOMAIN nt.stateCache :
         /\ GetChild(spec, k[1], k[2], TRUE).kind = "violation"
         /\ GetChild(spec, k[1], k[2], FALSE).kind # "violation"
         /\ nt.stateCache[k] # ZeroNode


(***************************************************************************)
(* Properties of skip directives                                           *)
(***************************************************************************)
MonotoneLayering(t) ==
    \A id \in NonTerminalIds(t) :
        LET n == NodeAt(t.nodes, id)
        IN  \A c \in {n.Lo, n.Hi} :
               c \in {ZeroNode, OneNode} \/ NodeAt(t.nodes, c).Level < n.Level

\* C5: monotone layering.  In every diagram produced by Build, whatever the
\* SkipTo values of the directives the specification returns, the Lo and Hi
\* of each stored non-terminal are terminals or nodes of a strictly smaller
\* level.
C5_MonotoneLayering == phase = "done" => MonotoneLayering(nt)

\* The frame of a call made for an arc whose directive names a level at or
\* above the level of the caller.
InvalidSkipCall(i) ==
    /\ i < Len(stack)
    /\ stack[i].pc \in {"waitLo", "waitHi"}
    /\ LET f == stack[i]
           out == GetChild(spec, f.state, f.level, f.pc = "waitHi")
       IN  out.kind = "skip" /\ out.skipTo >= f.level

\* C9: invalid skip directive.  A directive with SkipTo >= L returned at
\* level L makes the branch ZeroNode (or the build fails): no call is ever
\* made at a level that is not strictly below the caller's level.  A
\* directive with SkipTo = 0 yields OneNode iff IsValid holds on the wrapped
\* state, else ZeroNode.
C9_InvalidSkipRejected ==
    /\ \A i \in 1..Len(stack) : ~InvalidSkipCall(i)
    /\ \A i \in 2..Len(stack) : stack[i].level < stack[i - 1].level
    /\ \A i \in 1..Len(stack) :
         LET f == stack[i]
             lo == GetChild(spec, f.state, f.level, FALSE)
             hi == GetChild(spec, f.state, f.level, TRUE)
         IN  /\ (f.pc \in {"hi", "waitHi"} \cup Adding /\ lo.kind = "skip" /\ lo.skipTo = 0)
                => f.lo = (IF IsValid(spec, lo.state) THEN OneNode ELSE ZeroNode)
             /\ (f.pc \in Adding /\ hi.kind = "skip" /\ hi.skipTo = 0)
                => f.hi = (IF IsValid(spec, hi.state) THEN OneNode ELSE ZeroNode)

\* The sizes and cost vectors FindKBest is asked with.
KBestSizes == {1, 2^MaxVars}
CostValues == {-1, 1, 2}
CostVectors(n) ==
    {[i \in 0..n |-> IF i = 0 THEN 0 ELSE c[i]] : c \in [1..n -> CostValues]}

\* C10: skip-invariance.  A specification that emits a skip directive
\* (S', L') at level L, with L' below L, and its control, which walks the
\* levels L-1 .. L'+1 with "not taken" yielding S' and "taken" a violation,
\* give on fresh engines the same root id, the same Count and the same
\* FindKBest results.
C10_SkipInvariance ==
    (run = 2 /\ phase # "idle") =>
        /\ phase \in {"building", "returned", "done"}
        /\ phase = "done" =>
              /\ root = obs.root
              /\ Count(nt, root) = Count(obs.nt, obs.root)
              /\ \A k \in KBestSizes, costs \in CostVectors(zvars) :
                    FindKBest(nt, root, zvars, k, costs)
                       = FindKBest(obs.nt, obs.root, zvars, k, costs)

\* The control has been built after a directive that jumps at least one
\* level and was emitted during the build, on a diagram with several
\* selections.
C10_Witness ==
    /\ run = 2 /\ phase = "done"
    /\ spec.skip.level - spec.skip.to >= 2
    /\ \E k \in DOMAIN nt.stateCache : k[1].transit
    /\ root > OneNode
    /\ root = obs.root
    /\ Count(nt, root).n >= 2

(***************************************************************************)
(* Properties of GetNode                                                   *)
(***************************************************************************)
\* C20: GetNode(id) fails (ErrInvalidNode, its only error) exactly when id
\* is NullNode or past the end of the node array, succeeds for every id in
\* 1..Size(), and returns nodes of Level 0 for ZeroNode and OneNode.
C20_GetNodeErrors ==
    last.op = "GetNode" =>
        /\ ~last.ok <=> (last.ret = NullNode \/ last.ret >= Len(nt.nodes))
        /\ last.ok <=> last.ret \in 1..Size(nt)
        /\ last.ret \in {ZeroNode, OneNode} => (last.ok /\ last.level = 0)
        /\ last.ok => Node(last.level, last.lo, last.hi) = NodeAt(nt.nodes, last.ret)

\* GetNode failed on the first id past the end of an array that has grown.
C20_Witness ==
    /\ last.op = "GetNode"
    /\ last.ret = Size(nt) + 1
    /\ ~last.ok
    /\ Size(nt) > OneNode

(***************************************************************************)
(* Properties of a failed Build                                            *)
(***************************************************************************)
\* C11: cancellation.  When the context is cancelled or its deadline passes
\* before or during Build, Build returns an error, whatever GetChild returns
\* afterwards, and Root() keeps the value it had before the call.
C11_CancelledBuildFails ==
    /\ (phase = "done" => ~Done(ctx))
    /\ (Done(ctx) /\ phase \in {"done", "failed"}) => root = pre.root

\* C12: failure rollback.  After a failed Build (timeout, cancellation,
\* variable-count mismatch) Root(), Size(), the result of GetNode for every
\* id and the construction memo are what they were before the call.
C12_FailureRestores ==
    phase = "failed" =>
        /\ root = pre.root
        /\ Size(nt) = Size(pre.nt)
        /\ \A id \in 0..(Size(nt) + 1) : GetNode(nt, id) = GetNode(pre.nt, id)
        /\ nt.stateCache = pre.nt.stateCache

(***************************************************************************)
(* Properties of a second Build                                            *)
(***************************************************************************)
\* The subsets a diagram represents: the hi-arcs of its paths to OneNode.
RECURSIVE Represented(_, _)
Represented(t, id) ==
    IF id = ZeroNode \/ id = NullNode THEN {}
    ELSE IF id = OneNode THEN {{}}
    ELSE LET n == NodeAt(t.nodes, id)
         IN  Represented(t, n.Lo)
                \cup {S \cup {n.Level} : S \in Represented(t, n.Hi)}

\* C13: the memo lives for one Build.  When an engine that has built A
\* builds a different B over the same N, no memo entry recorded for A is
\* reused, and after success Root() and Count() describe exactly the
\* subsets B accepts.
C13_MemoPerBuild ==
    run = 2 =>
        /\ ret.level > 0 =>
              <<ret.state, ret.level>> \notin DOMAIN obs.nt.stateCache
        /\ phase = "done" =>
              /\ Represented(nt, root) = Accepted(spec)
              /\ Count(nt, root) = [ok |-> TRUE, n |-> Cardinality(Accepted(spec))]

(***************************************************************************)
(* Build, then one FindKBest call                                          *)
(***************************************************************************)
\* The specifications whose diagrams are evaluated: counting specifications
\* with and without a skip directive.
EvalFamily(n) ==
    {f \in SpecFamily(n) : f.loBlocked = {}}
       \cup {f \in SkipFamily(n) :
                f.maxCount = n /\ f.minCount = 0 /\ f.hiBlocked = {}}

\* The k a caller asks for.
KInputs == {0, 1, 3, 2^MaxVars}

\* Cost vectors of len entries, all 1 but the unused entry 0.
UnitCosts(len) == [i \in 0..(len - 1) |-> IF i = 0 THEN 0 ELSE 1]

\* The cost vectors a caller passes to an engine over n variables: those of
\* n + 1 entries, one with an entry more, one with an entry less, and the
\* empty one.
CostInputs(n) ==
    CostVectors(n) \cup {UnitCosts(n + 2), UnitCosts(n), UnitCosts(0)}

InitEval ==
    /\ InitCallers
    /\ \E n \in 0..MaxVars :
         LET z == NewZDD(n, << >>)
         IN  /\ nt = z.nodes /\ zvars = z.vars /\ config = z.config /\ root = z.root
             /\ spec \in EvalFamily(n)
    /\ phase = "idle" /\ stack = << >> /\ ret = NoReturn
    /\ run = 1 /\ obs = NoObs
    /\ ctx = "live" /\ err = "none" /\ pre = NoObs /\ evalr = NoEval

\* EvaluateZDD with a KBestEvaluator, on an engine that is not building.
CallFindKBest ==
    /\ phase \in {"idle", "done"}
    /\ evalr = NoEval
    /\ \E k \in KInputs, costs \in CostInputs(zvars) :
         \E res \in KBestEvaluate(nt, root, zvars, k, costs) :
            evalr' = [op |-> "FindKBest", k |-> k, costs |-> costs,
                      ok |-> res.ok, err |-> res.err,
                      Solutions |-> res.Solutions,
                      Count |-> res.Count]
    /\ UNCHANGED <<nt, spec, zvars, config, root, phase, stack, ret, run, obs, ctx, err, pre,
                   callerVars>>

\* The caller's one evaluation is its last call: it builds before it, or
\* not at all.
BuildFirst ==
    /\ evalr = NoEval
    /\ Build

NextEval ==
    BuildFirst \/ Enter \/ ExploreLo \/ ExploreHi \/ AddNodeCall \/ CacheStateCall \/ ReturnNode \/ Publish \/ CallFindKBest

SpecEval == InitEval /\ [][NextEval]_vars

(***************************************************************************)
(* Properties of FindKBest                                                 *)
(***************************************************************************)
\* A FindKBest call on a built diagram with k >= 1 and enough costs.
KBestCase ==
    /\ evalr.op = "FindKBest"
    /\ phase = "done"
    /\ evalr.k >= 1
    /\ CostLen(evalr.costs) >= zvars + 1

\* C14: k-best ordering.  With k >= 1 and at least N+1 costs, FindKBest on
\* a built diagram returns at most k solutions, their costs non-decreasing
\* and no variable set twice.
C14_KBestOrdering ==
    KBestCase =>
        /\ evalr.ok
        /\ Len(evalr.Solutions) <= evalr.k
        /\ \A i, j \in 1..Len(evalr.Solutions) :
              i < j => /\ evalr.Solutions[i].Cost <= evalr.Solutions[j].Cost
                       /\ evalr.Solutions[i].Variables # evalr.Solutions[j].Variables

\* The elements of a sequence.
Range(s) == {s[i] : i \in 1..Len(s)}

\* The cost the contract gives a set of levels: the sum of their entries of
\* the cost vector (a level without an entry adds nothing).
RECURSIVE SetCost(_, _)
SetCost(S, costs) ==
    IF S = {} THEN 0
    ELSE LET x == CHOOSE y \in S : TRUE
         IN  (IF x \in DOMAIN costs THEN costs[x] ELSE 0) + SetCost(S \ {x}, costs)

\* C15: k-best optimality.  The solutions FindKBest(k, costs) returns are
\* subsets the diagram represents, no represented subset left out costs
\* less than a returned one, as many as k are returned when the diagram
\* has them, and the first is globally optimal.
C15_KBestOptimal ==
    KBestCase =>
        LET all == Represented(nt, root)
            got == {Range(evalr.Solutions[i].Variables) : i \in 1..Len(evalr.Solutions)}
        IN  /\ got \subseteq all
            /\ Cardinality(got) = (IF evalr.k < Cardinality(all)
                                   THEN evalr.k ELSE Cardinality(all))
            /\ \A S \in all \ got : \A i \in 1..Len(evalr.Solutions) :
                  evalr.Solutions[i].Cost <= SetCost(S, evalr.costs)
            /\ all # {} =>
                  /\ Len(evalr.Solutions) >= 1
                  /\ \A S \in all : evalr.Solutions[1].Cost <= SetCost(S, evalr.costs)

\* C16: cost law.  Every solution FindKBest returns has Variables an
\* ascending list of distinct levels in 1..N, the hi-arcs of one path from
\* the root to OneNode, and Cost the sum of costs[i] over i in Variables.
C16_CostLaw ==
    (evalr.op = "FindKBest" /\ evalr.ok) =>
        \A i \in 1..Len(evalr.Solutions) :
            LET sol == evalr.Solutions[i]
            IN  /\ \A a, b \in 1..Len(sol.Variables) :
                      a < b => sol.Variables[a] < sol.Variables[b]
                /\ Range(sol.Variables) \subseteq 1..zvars
                /\ Range(sol.Variables) \in Represented(nt, root)
                /\ sol.Cost = SetCost(Range(sol.Variables), evalr.costs)

\* a comes before b in the lexicographic order of sequences.
LexLess(a, b) ==
    \E i \in 1..(Len(b)) :
        /\ \A j \in 1..(i - 1) : j <= Len(a) /\ a[j] = b[j]
        /\ (i > Len(a) \/ (i <= Len(a) /\ a[i] < b[i]))

\* The elements of a set of levels in ascending order.
RECURSIVE Ascending(_)
Ascending(S) ==
    IF S = {} THEN << >>
    ELSE LET m == CHOOSE x \in S : \A y \in S : x <= y
         IN  <<m>> \o Ascending(S \ {m})

\* The specification that accepts every subset.
IsAllAccepting(sp) == IsAtMost(sp) /\ sp.maxCount = Variables(sp)

\* C17: k-best tie-breaking.  Among solutions of equal cost FindKBest
\* orders, and selects when it truncates to k, by ascending sorted variable
\* sequence; for N = 3, unit costs and k = 3 on the all-accepting
\* specification the result is (), {1}, {2}.
C17_TieBreaking ==
    KBestCase =>
        LET sols == evalr.Solutions
            got == {Range(sols[i].Variables) : i \in 1..Len(sols)}
        IN  /\ \A i, j \in 1..Len(sols) :
                  (i < j /\ sols[i].Cost = sols[j].Cost)
                     => LexLess(sols[i].Variables, sols[j].Variables)
            /\ \A S \in Represented(nt, root) \ got :
                  (sols # << >> /\ SetCost(S, evalr.costs) = sols[Len(sols)].Cost)
                     => LexLess(sols[Len(sols)].Variables, Ascending(S))
            /\ (IsAllAccepting(spec) /\ zvars = 3 /\ evalr.k = 3
                  /\ evalr.costs = UnitCosts(zvars + 1))
                  => [i \in 1..Len(sols) |-> sols[i].Variables] = << << >>, <<1>>, <<2>> >>

\* C18: short cost vectors.  A cost vector with fewer than N+1 entries
\* makes FindKBest fail with ErrInvalidConstraint, whatever the engine
\* state and whatever k (an engine that has not built, and k = 0, included).
C18_ShortCostsFail ==
    (evalr.op = "FindKBest" /\ CostLen(evalr.costs) < zvars + 1) =>
        /\ ~evalr.ok
        /\ evalr.err = "ErrInvalidConstraint"

\* FindKBest was called with a cost vector of at least N+1 entries.
ValidCostsCase == evalr.op = "FindKBest" /\ CostLen(evalr.costs) >= zvars + 1

\* The smaller of two integers.
Min(a, b) == IF a < b THEN a ELSE b

\* C19: number of solutions.  With a cost vector of at least N+1 entries
\* FindKBest returns exactly min(k, Count()) solutions without error, so
\* none for k = 0 and none for a diagram whose root is ZeroNode; and
\* KBestResult.Count equals Count() when k >= 1, and is 0 when k = 0.
C19_SolutionCount ==
    ValidCostsCase =>
        /\ evalr.ok
        /\ Count(nt, root).ok
        /\ Len(evalr.Solutions) = Min(evalr.k, Count(nt, root).n)
        /\ evalr.k = 0 => evalr.Solutions = << >>
        /\ root = ZeroNode => evalr.Solutions = << >>
        /\ evalr.Count = (IF evalr.k >= 1 THEN Count(nt, root).n ELSE 0)

\* C19 as stated: KBestResult.Count equals Count() for every k.
C19_CountAlwaysEqual ==
    ValidCostsCase =>
        /\ evalr.ok
        /\ Len(evalr.Solutions) = Min(evalr.k, Count(nt, root).n)
        /\ evalr.Count = Count(nt, root).n

\* FindKBest cut a longer list to k solutions.
C19_Witness ==
    /\ ValidCostsCase
    /\ phase = "done"
    /\ evalr.k >= 1
    /\ Len(evalr.Solutions) = evalr.k
    /\ evalr.Count > evalr.k
    /\ evalr.Count = Count(nt, root).n

(***************************************************************************)
(* Properties of Build's precondition                                      *)
(***************************************************************************)
\* C21: variable-count mismatch.  Build with a specification whose
\* Variables() differs from the engine's count returns an error without
\* calling InitialState or GetChild (no expansion is entered, nothing is
\* returned) and leaves Root() and Size(), and the whole table, as they were.
C21_MismatchRejected ==
    (Variables(spec) # zvars /\ phase # "idle") =>
        /\ phase = "failed"
        /\ err = "mismatch"
        /\ stack = << >>
        /\ ret = NoReturn
        /\ root = pre.root
        /\ Size(nt) = Size(pre.nt)
        /\ nt = pre.nt

\* An engine that has built a diagram refused a specification over another
\* number of variables.
C21_Witness ==
    /\ run = 2
    /\ Variables(spec) # zvars
    /\ phase = "failed"
    /\ err = "mismatch"
    /\ root = obs.root
    /\ root > OneNode
    /\ Size(nt) > OneNode

(***************************************************************************)
(* Counting in the result's integer width                                  *)
(*                                                                         *)
(* Count adds int64 values.  A word is a sequence of CountBits bits, the   *)
(* lowest first, and addition drops the carry out of the highest bit, as   *)
(* Go's + on int64 does.  The diagrams counted here are those of the       *)
(* all-accepting specification over about CountBits variables: one node    *)
(* per level, both arcs to the node of the level below.                    *)
(***************************************************************************)
\* The number of variables of the widest diagram, beyond CountBits.
WideSpan == 1

\* A word is kept as limbs of LimbBits bits, the lowest first.
LimbBits == CountBits \div 4
Limbs == CountBits \div LimbBits
LimbBase == 2^LimbBits

\* The word with exactly the bits of S set.
RECURSIVE BitSum(_)
BitSum(S) ==
    IF S = {} THEN 0
    ELSE LET b == CHOOSE x \in S : TRUE IN 2^b + BitSum(S \ {b})

WordOf(S) ==
    [i \in 1..Limbs |->
        BitSum({b - (i - 1) * LimbBits : b \in {x \in S : x \div LimbBits = i - 1}})]
WordZero == WordOf({})
WordOne == WordOf({0})
\* math.MaxInt64
WordMax == WordOf(0..(CountBits - 2))
\* The sign bit of a word.
IsNegative(w) == w[Limbs] >= LimbBase \div 2

\* loCount + hiCount on int64
RECURSIVE AddFrom(_, _, _, _)
AddFrom(a, b, i, carry) ==
    IF i > Limbs THEN << >>
    ELSE LET s == a[i] + b[i] + carry
         IN  <<s % LimbBase>> \o AddFrom(a, b, i + 1, s \div LimbBase)

AddWrap(a, b) == AddFrom(a, b, 1, 0)

\* CountEvaluator.countRecursive on words, followed call by call: calls
\* holds one frame per active call, memo is the evaluator's memo.
CountFrame(id) == [id |-> id, pc |-> "enter", lo |-> WordZero, hi |-> WordZero]

\* The innermost call returns v to its caller, or to Evaluate.
CountReturn(e, v) ==
    LET rest == SubSeq(e.calls, 1, Len(e.calls) - 1)
    IN  IF rest = << >>
        THEN [e EXCEPT !.calls = rest, !.running = FALSE, !.n = v]
        ELSE LET p == rest[Len(rest)]
             IN  [e EXCEPT !.calls =
                     [rest EXCEPT ![Len(rest)] =
                         IF p.pc = "waitLo" THEN [p EXCEPT !.lo = v, !.pc = "hi"]
                         ELSE [p EXCEPT !.hi = v, !.pc = "sum"]]]

\* A call fails: the error goes up through every caller.
CountFail(e) == [e EXCEPT !.calls = << >>, !.running = FALSE, !.ok = FALSE, !.n = WordZero]

\* The all-accepting specification over n variables.
AllAccepting(n) ==
    [vars |-> n, maxCount |-> n, minCount |-> 0, loBlocked |-> {},
     hiBlocked |-> {}, skip |-> NoSkip, control |-> FALSE, ctxAware |-> FALSE, kind |-> "counting"]

WideVars == (CountBits - 2)..(CountBits + WideSpan)

InitWide ==
    /\ InitCallers
    /\ \E n \in WideVars :
         LET z == NewZDD(n, << >>)
         IN  /\ nt = z.nodes /\ zvars = z.vars /\ config = z.config /\ root = z.root
             /\ spec = [AllAccepting(n) EXCEPT !.kind = "shared"]
    /\ phase = "idle" /\ stack = << >> /\ ret = NoReturn
    /\ run = 1 /\ obs = NoObs
    /\ ctx = "live" /\ err = "none" /\ pre = NoObs /\ evalr = NoEval

\* z.Count(ctx) on the built diagram: CountEvaluator.Evaluate up to its
\* call of countRecursive on the root.
CallCount ==
    /\ phase = "done"
    /\ evalr = NoEval
    /\ evalr' = [op |-> "Count", running |-> root # NullNode, ok |-> TRUE,
                 n |-> WordZero, memo |-> << >>,
                 calls |-> IF root = NullNode THEN << >> ELSE << CountFrame(root) >>]
    /\ UNCHANGED <<nt, spec, zvars, config, root, phase, stack, ret, run, obs, ctx, err, pre, callerVars>>

\* countRecursive from its entry to its first recursive call or its return.
CountEnter ==
    /\ evalr.op = "Count" /\ evalr.running
    /\ LET f == evalr.calls[Len(evalr.calls)]
           g == GetNode(nt, f.id)
       IN  /\ f.pc = "enter"
           /\ evalr' =
                IF f.id \in DOMAIN evalr.memo THEN CountReturn(evalr, evalr.memo[f.id])
                ELSE IF f.id = ZeroNode
                THEN CountReturn([evalr EXCEPT !.memo = (f.id :> WordZero) @@ @], WordZero)
                ELSE IF f.id = OneNode
                THEN CountReturn([evalr EXCEPT !.memo = (f.id :> WordOne) @@ @], WordOne)
                ELSE IF ~g.ok THEN CountFail(evalr)
                ELSE [evalr EXCEPT !.calls =
                        Append([@ EXCEPT ![Len(@)] = [f EXCEPT !.pc = "waitLo"]],
                               CountFrame(g.node.Lo))]
    /\ UNCHANGED <<nt, spec, zvars, config, root, phase, stack, ret, run, obs, ctx, err, pre, callerVars>>

\* countRecursive after the lo count: the recursive call for the hi arc.
CountHi ==
    /\ evalr.op = "Count" /\ evalr.running
    /\ LET f == evalr.calls[Len(evalr.calls)]
       IN  /\ f.pc = "hi"
           /\ evalr' = [evalr EXCEPT !.calls =
                          Append([@ EXCEPT ![Len(@)] = [f EXCEPT !.pc = "waitHi"]],
                                 CountFrame(GetNode(nt, f.id).node.Hi))]
    /\ UNCHANGED <<nt, spec, zvars, config, root, phase, stack, ret, run, obs, ctx, err, pre, callerVars>>

\* countRecursive keeping its memo entry in the engine's table.
CountSumInTable ==
    /\ evalr.op = "Count" /\ evalr.running
    /\ LET f == evalr.calls[Len(evalr.calls)]
           totalCount == AddWrap(f.lo, f.hi)
       IN  /\ f.pc = "sum"
           /\ evalr' = CountReturn([evalr EXCEPT !.memo = (f.id :> totalCount) @@ @],
                                   totalCount)
           /\ nt' = CacheState(nt, IntState(0), 0, f.id)
    /\ UNCHANGED <<spec, zvars, config, root, phase, stack, ret, run, obs, ctx, err, pre, callerVars>>

\* countRecursive after both counts: the sum, the memo entry, the return.
CountSum ==
    /\ evalr.op = "Count" /\ evalr.running
    /\ LET f == evalr.calls[Len(evalr.calls)]
           totalCount == AddWrap(f.lo, f.hi)
       IN  /\ f.pc = "sum"
           /\ evalr' = CountReturn([evalr EXCEPT !.memo = (f.id :> totalCount) @@ @],
                                   totalCount)
    /\ UNCHANGED <<nt, spec, zvars, config, root, phase, stack, ret, run, obs, ctx, err, pre, callerVars>>

NextWide ==
    \/ Build \/ Enter \/ ExploreLo \/ ExploreHi
    \/ AddNodeCall \/ CacheStateCall \/ ReturnNode \/ Publish
    \/ CallCount \/ CountEnter \/ CountHi \/ CountSum

SpecWide == InitWide /\ [][NextWide]_vars

\* C22: overflow policy of Count.  When the number of paths to OneNode does
\* not fit the result integer (the all-accepting specification over N
\* variables has 2^N of them), Count reports a domain error or the largest
\* value; it never returns a wrapped value, negative or too small.
C22_CountNeverWraps ==
    (evalr.op = "Count" /\ ~evalr.running /\ evalr.ok) =>
            /\ ~IsNegative(evalr.n)
            /\ evalr.n = (IF zvars < CountBits - 1 THEN WordOf({zvars}) ELSE WordMax)

(***************************************************************************)
(* Engines made with options, and a second engine for the same             *)
(* specification                                                           *)
(***************************************************************************)
\* The option lists handed to NewZDD.
OptionLists ==
    { << >>,
      << WithMemoryLimit(0) >>,
      << WithMemoryLimit(1) >>,
      << WithParallel(0) >>,
      << WithParallel(2) >>,
      << WithParallel(2), WithMemoryLimit(1) >> }

\* unsafe.Sizeof(Node{}): Level int, Lo and Hi uint32.
NodeBytes == 16
\* The bytes of the nodes array, the least the engine's structures take.
Footprint(t) == Len(t.nodes) * NodeBytes

InitConfig ==
    /\ InitCallers
    /\ \E n \in 0..MaxVars, opts \in OptionLists :
         LET z == NewZDD(n, opts)
         IN  /\ nt = z.nodes /\ zvars = z.vars /\ config = z.config /\ root = z.root
             /\ spec \in RebuildFamily(n)
    /\ phase = "idle" /\ stack = << >> /\ ret = NoReturn
    /\ run = 1 /\ obs = NoObs
    /\ ctx = "live" /\ err = "none" /\ pre = NoObs /\ evalr = NoEval

\* The first build is kept aside, and the same specification is handed to
\* a new engine made with any of the option lists.
StartSecond ==
    /\ phase = "done"
    /\ run = 1
    /\ obs' = [root |-> root, nt |-> nt, config |-> config]
    /\ \E opts \in OptionLists :
         LET z == NewZDD(zvars, opts)
         IN  nt' = z.nodes /\ zvars' = z.vars /\ config' = z.config /\ root' = z.root
    /\ run' = 2
    /\ phase' = "idle"
    /\ ret' = NoReturn
    /\ UNCHANGED <<spec, stack, ctx, err, pre, evalr, callerVars>>

NextConfig == Build \/ Enter \/ ExploreLo \/ ExploreHi \/ AddNodeCall \/ CacheStateCall \/ ReturnNode \/ Publish \/ StartSecond

SpecConfig == InitConfig /\ [][NextConfig]_vars

\* C23: memory limit.  With a positive limit configured, a Build whose
\* node table takes more than the limit fails with ErrMemoryLimit; with
\* limit 0 no limit applies; and 0 is the limit of an engine made without
\* the option.
C23_MemoryLimit ==
    /\ newConfig(<< >>).MemoryLimit = 0
    /\ (phase \in {"done", "failed"} /\ config.MemoryLimit > 0
          /\ Footprint(nt) > config.MemoryLimit)
          => (phase = "failed" /\ err = "ErrMemoryLimit")
    /\ (phase = "failed" /\ err = "ErrMemoryLimit") => config.MemoryLimit > 0


\* What the specification alone determines.  F is a family of selections
\* of levels; its reduced diagram branches on the greatest level any
\* selection takes, to the selections without it and to those with it.
TopLevel(F) == CHOOSE v \in UNION F : \A w \in UNION F : w <= v

Without(F, v) == {S \in F : v \notin S}

With(F, v) == {S \ {v} : S \in {T \in F : v \in T}}

\* The families that take a node of the reduced diagram of F: one for
\* every distinct family met on the way down that is neither empty nor
\* the empty selection alone.
RECURSIVE NodeFamilies(_)
NodeFamilies(F) ==
    IF F \subseteq {{}} THEN {}
    ELSE LET v == TopLevel(F)
         IN  {F} \cup NodeFamilies(Without(F, v)) \cup NodeFamilies(With(F, v))

\* The nodes are stored after their children, so the root is the last id.
ExpectedSize(F) == OneNode + Cardinality(NodeFamilies(F))

ExpectedRoot(F) == IF F = {} THEN ZeroNode ELSE ExpectedSize(F)

\* The selections of F in the order a walk of its diagram meets them: the
\* "not taken" side of a level before its "taken" side.
RECURSIVE ListFamily(_)
ListFamily(F) ==
    IF F = {} THEN << >>
    ELSE IF F = {{}} THEN << {} >>
    ELSE LET v     == TopLevel(F)
             taken == ListFamily(With(F, v))
         IN  ListFamily(Without(F, v))
                \o [i \in 1..Len(taken) |-> taken[i] \cup {v}]

\* The results FindKBest(k, costs) has for the family F over nvars levels.
ExpectedKBest(F, nvars, k, costs) ==
    IF k <= 0
    THEN {[ok |-> TRUE, err |-> "none", Solutions |-> << >>]}
    ELSE IF CostLen(costs) <= nvars
    THEN {[ok |-> FALSE, err |-> "insufficient cost data", Solutions |-> << >>]}
    ELSE LET listed == ListFamily(F)
             sols   == [i \in 1..Len(listed) |->
                           [Variables |-> Ascending(listed[i]),
                            Cost      |-> SetCost(listed[i], costs)]]
         IN  {[ok |-> TRUE, err |-> "none", Solutions |-> cut] :
                 cut \in SortAndCut(sols, k)}

\* C24: determinism.  Two Build calls on two fresh engines with the same
\* specification, whatever the Workers setting of either, yield the same
\* root id, the same Size(), the same Count() and the same FindKBest list
\* for every k and cost vector; and each of them is what the family of
\* selections the specification accepts determines: the last id and the
\* size of its reduced diagram, the number of its selections, and its k
\* cheapest selections in the order of the walk.
C24_Determinism ==
    (run = 2 /\ phase = "done") =>
        LET F == Accepted(spec)
        IN  /\ root = obs.root
            /\ Size(nt) = Size(obs.nt)
            /\ Count(nt, root) = Count(obs.nt, obs.root)
            /\ \A k \in KInputs, costs \in CostInputs(zvars) :
                  FindKBest(nt, root, zvars, k, costs)
                     = FindKBest(obs.nt, obs.root, zvars, k, costs)
            /\ root = ExpectedRoot(F)
            /\ Size(nt) = ExpectedSize(F)
            /\ Count(nt, root) = [ok |-> TRUE, n |-> Cardinality(F)]
            /\ \A k \in KInputs, costs \in CostInputs(zvars) :
                  FindKBest(nt, root, zvars, k, costs)
                     = ExpectedKBest(F, zvars, k, costs)

\* A sequential and a parallel engine have both built a diagram with
\* nodes of its own.
C24_Witness ==
    /\ run = 2
    /\ phase = "done"
    /\ obs.config.Workers = 1
    /\ config.Workers > 1
    /\ root = obs.root
    /\ root > OneNode
    /\ Count(nt, root).n > 1

(***************************************************************************)
(* Build of a specification that accepts everything                        *)
(***************************************************************************)
\* The all-accepting specifications over n variables: the state counts the
\* taken variables, or is one shared state, or is distinct on every path.
AcceptAllFamily(n) ==
    { [AllAccepting(n) EXCEPT !.kind = k] : k \in {"counting", "shared", "path"} }

InitAccept ==
    /\ InitCallers
    /\ \E n \in 0..MaxVars :
         LET z == NewZDD(n, << >>)
         IN  /\ nt = z.nodes /\ zvars = z.vars /\ config = z.config /\ root = z.root
             /\ spec \in AcceptAllFamily(n)
    /\ phase = "idle" /\ stack = << >> /\ ret = NoReturn
    /\ run = 1 /\ obs = NoObs
    /\ ctx = "live" /\ err = "none" /\ pre = NoObs /\ evalr = NoEval

SpecAccept == InitAccept /\ [][Next]_vars

\* C25: the all-accepting specification.  Whatever states it returns, one
\* shared state or a distinct state per path, the built diagram has
\* Count() = 2^N and Size() = N + 2: one node per level and the terminals.
C25_AllAccepting ==
    phase = "done" =>
        /\ Count(nt, root) = [ok |-> TRUE, n |-> 2^zvars]
        /\ Size(nt) = zvars + 2
        /\ \A l \in 1..zvars : \E id \in NonTerminalIds(nt) : NodeAt(nt.nodes, id).Level = l

\* Build has ended for a specification over at least two variables whose
\* states are distinct on every path.
C25_Witness ==
    /\ phase = "done"
    /\ spec.kind = "path"
    /\ zvars >= 2
    /\ Size(nt) = zvars + 2
    /\ Count(nt, root).n = 2^zvars

(***************************************************************************)
(* Build of a CompositeConstraintSpec with one CountConstraint             *)
(***************************************************************************)
\* NewCompositeSpec(n, BasicState{Counters: []int{0}}, CountConstraint{Min, Max})
CompositeFamily(n) ==
    { [AllAccepting(n) EXCEPT !.kind = "composite", !.minCount = lo, !.maxCount = hi] :
         lo \in 0..n, hi \in 0..n }

InitComposite ==
    /\ InitCallers
    /\ \E n \in 0..MaxVars :
         LET z == NewZDD(n, << >>)
         IN  /\ nt = z.nodes /\ zvars = z.vars /\ config = z.config /\ root = z.root
             /\ spec \in CompositeFamily(n)
    /\ phase = "idle" /\ stack = << >> /\ ret = NoReturn
    /\ run = 1 /\ obs = NoObs
    /\ ctx = "live" /\ err = "none" /\ pre = NoObs /\ evalr = NoEval

SpecComposite == InitComposite /\ [][Next]_vars

\* C26: count constraint.  The diagram built from a CompositeConstraintSpec
\* over N variables with one counter and CountConstraint{Min, Max} has as
\* solutions exactly the subsets T with Min <= |T| <= Max.
C26_CountConstraint ==
    phase = "done" =>
        Represented(nt, root) =
            {T \in SUBSET (1..zvars) :
                spec.minCount <= Cardinality(T) /\ Cardinality(T) <= spec.maxCount}

(***************************************************************************)
(* Build, then one CostEvaluator call                                      *)
(***************************************************************************)
\* The specifications whose diagrams are optimised: counting specifications
\* with forbidden lo arcs, the infeasible ones included.
OptimalFamily(n) == {f \in SpecFamily(n) : f.hiBlocked = {}}

\* Cost vectors with one entry as large as the cost given to ZeroNode.
LargeCosts(n) ==
    { [i \in 0..n |-> IF i = b THEN InfeasibleCost ELSE IF i = 0 THEN 0 ELSE 1] :
         b \in 1..n }

\* The cost vectors handed to the CostEvaluator.
OptimalCostInputs(n) == CostVectors(n) \cup LargeCosts(n) \cup {UnitCosts(n)}

InitOptimal ==
    /\ InitCallers
    /\ \E n \in 0..MaxVars :
         LET z == NewZDD(n, << >>)
         IN  /\ nt = z.nodes /\ zvars = z.vars /\ config = z.config /\ root = z.root
             /\ spec \in OptimalFamily(n)
    /\ phase = "idle" /\ stack = << >> /\ ret = NoReturn
    /\ run = 1 /\ obs = NoObs
    /\ ctx = "live" /\ err = "none" /\ pre = NoObs /\ evalr = NoEval

\* EvaluateZDD with a CostEvaluator, on an engine that is not building.
CallOptimal ==
    /\ phase \in {"idle", "done"}
    /\ evalr = NoEval
    /\ \E costs \in OptimalCostInputs(zvars) :
         LET res == OptimalEvaluate(nt, root, zvars, costs)
         IN  evalr' = [op |-> "Optimal", costs |-> costs, ok |-> res.ok, err |-> res.err,
                       Found |-> res.Found, Variables |-> res.Variables,
                       Cost |-> res.Cost]
    /\ UNCHANGED <<nt, spec, zvars, config, root, phase, stack, ret, run, obs, ctx, err, pre,
                   callerVars>>

NextOptimal ==
    BuildFirst \/ Enter \/ ExploreLo \/ ExploreHi \/ AddNodeCall \/ CacheStateCall \/ ReturnNode \/ Publish \/ CallOptimal

SpecOptimal == InitOptimal /\ [][NextOptimal]_vars

\* C30: the min-cost evaluator agrees with k-best for k = 1.  On a built
\* diagram with a cost vector of at least N+1 entries, CostEvaluator
\* returns Found = false exactly when the root is ZeroNode, and otherwise
\* a represented subset whose Cost is the sum of its variables' costs and
\* equals the cost of FindKBest(1)[0].
C30_OptimalIsKBestOne ==
    (evalr.op = "Optimal" /\ phase = "done" /\ CostLen(evalr.costs) >= zvars + 1) =>
        /\ evalr.ok
        /\ evalr.Found <=> root # ZeroNode
        /\ evalr.Found =>
              /\ Range(evalr.Variables) \in Represented(nt, root)
              /\ evalr.Cost = SetCost(Range(evalr.Variables), evalr.costs)
              /\ \A res \in FindKBest(nt, root, zvars, 1, evalr.costs) :
                    evalr.Cost = res.Solutions[1].Cost

(***************************************************************************)
(* Evaluators on a finished diagram, one of them while Count is under way  *)
(***************************************************************************)
\* Cost vectors of n + 1 entries handed to the evaluators that run beside
\* Count: unit costs, and the costs -1.
BesideCosts(n) ==
    {UnitCosts(n + 1), [i \in 0..n |-> IF i = 0 THEN 0 ELSE -1]}

\* The word of a count below LimbBase.
WordOfCount(n) == [i \in 1..Limbs |-> IF i = 1 THEN n ELSE 0]

\* A second goroutine evaluates the finished diagram while Count may be
\* under way.  It reaches the table through GetNode only, one call at a
\* step, each holding the read lock for that call alone; obs holds what it
\* asked for, the ids it has still to read, the nodes GetNode returned and,
\* at the end, what it returned.
NoReads == [id \in {} |-> Node(0, NullNode, NullNode)]

InitReaders ==
    /\ InitCallers
    /\ \E n \in 0..MaxVars :
         LET z == NewZDD(n, << >>)
         IN  /\ nt = z.nodes /\ zvars = z.vars /\ config = z.config /\ root = z.root
             /\ spec \in RebuildFamily(n)
    /\ phase = "idle" /\ stack = << >> /\ ret = NoReturn
    /\ run = 1 /\ obs = NoObs
    /\ ctx = "live" /\ err = "none" /\ pre = NoObs /\ evalr = NoEval

CountUnderWay == evalr # NoEval /\ evalr.running

\* The call of the second evaluator: Count, FindKBest or the CostEvaluator.
BesideCall ==
    /\ phase = "done"
    /\ obs = NoObs
    /\ \E op \in {"Count", "FindKBest", "Optimal"}, k \in KBestSizes,
          costs \in BesideCosts(zvars) :
         /\ op = "Count" => (k = 1 /\ costs = UnitCosts(zvars + 1))
         /\ op = "Optimal" => k = 1
         /\ obs' = [op |-> op, k |-> k, costs |-> costs, running |-> TRUE,
                    during |-> CountUnderWay, between |-> FALSE,
                    visit |-> IF root = NullNode THEN << >> ELSE << root >>,
                    reads |-> NoReads, ok |-> TRUE, result |-> << >>]
    /\ UNCHANGED <<nt, spec, zvars, config, root, phase, stack, ret, run, ctx, err, pre, evalr,
                   callerVars>>

\* The evaluator comes to a node: a terminal is recognised by its id, any
\* other node is read with GetNode, by FindKBest every time a path comes
\* to it, by the evaluators that keep a memo once.
BesideRead ==
    /\ obs # NoObs /\ obs.running /\ obs.visit # << >>
    /\ LET id == Head(obs.visit)
           g  == GetNode(nt, id)
       IN  obs' =
             IF id \in {ZeroNode, OneNode} \/ (obs.op # "FindKBest" /\ id \in DOMAIN obs.reads)
             THEN [obs EXCEPT !.visit = Tail(@)]
             ELSE IF ~g.ok
             THEN [obs EXCEPT !.visit = << >>, !.ok = FALSE]
             ELSE [obs EXCEPT !.visit = << g.node.Lo, g.node.Hi >> \o Tail(@),
                              !.reads = (id :> g.node) @@ @,
                              !.between = @ \/ CountUnderWay]
    /\ UNCHANGED <<nt, spec, zvars, config, root, phase, stack, ret, run, ctx, err, pre, evalr,
                   callerVars>>

\* The table as the evaluator has seen it: the nodes it read, under their
\* ids.
AsRead(t, reads) ==
    [t EXCEPT !.nodes = [i \in 1..Len(t.nodes) |->
                            IF (i - 1) \in DOMAIN reads THEN reads[i - 1]
                            ELSE Node(0, NullNode, NullNode)]]

\* What an evaluator can return on a table.
Evaluate(op, t, r, nvars, k, costs) ==
    IF op = "Count" THEN {Count(t, r)}
    ELSE IF op = "FindKBest" THEN FindKBest(t, r, nvars, k, costs)
    ELSE {OptimalEvaluate(t, r, nvars, costs)}

\* The evaluator returns what it computed from the nodes it read.
BesideReturn ==
    /\ obs # NoObs /\ obs.running /\ obs.visit = << >>
    /\ \E res \in (IF obs.ok
                    THEN Evaluate(obs.op, AsRead(nt, obs.reads), root, zvars, obs.k, obs.costs)
                    ELSE {[ok |-> FALSE]}) :
         obs' = [obs EXCEPT !.running = FALSE, !.result = res]
    /\ UNCHANGED <<nt, spec, zvars, config, root, phase, stack, ret, run, ctx, err, pre, evalr,
                   callerVars>>

NextReaders ==
    \/ Build \/ Enter \/ ExploreLo \/ ExploreHi
    \/ AddNodeCall \/ CacheStateCall \/ ReturnNode \/ Publish
    \/ CallCount \/ CountEnter \/ CountHi \/ CountSum
    \/ BesideCall \/ BesideRead \/ BesideReturn

SpecReaders == InitReaders /\ [][NextReaders]_vars

\* What the second evaluator can return when it runs alone on the engine as it
\* is now.
AloneResult == Evaluate(obs.op, nt, root, zvars, obs.k, obs.costs)

\* C27: evaluators do not mutate the finished diagram.  No step of Count,
\* FindKBest or the CostEvaluator changes Root(), Size() or a stored node,
\* and evaluators that interleave on the same root return what each
\* returns when it runs alone.
C27_EvaluatorsArePure ==
    /\ [][phase = "done" => (nt' = nt /\ root' = root /\ phase' = "done")]_vars
    /\ []((evalr # NoEval /\ ~evalr.running) =>
             (evalr.ok /\ Count(nt, root).ok /\ evalr.n = WordOfCount(Count(nt, root).n)))
    /\ []((obs # NoObs /\ ~obs.running) => obs.result \in AloneResult)

\* Count has returned, and FindKBest was called and read nodes of the same
\* diagram while Count was under way.
C27_Witness ==
    /\ evalr # NoEval /\ ~evalr.running
    /\ obs # NoObs /\ ~obs.running /\ obs.op = "FindKBest" /\ obs.during /\ obs.between
    /\ root > OneNode
    /\ Count(nt, root).n > 1
    /\ Len(obs.result.Solutions) >= 1

(***************************************************************************)
(* Termination of Build                                                    *)
(***************************************************************************)
\* Build runs in its caller's goroutine, which the scheduler keeps running:
\* a step of the construction that can be taken is taken.
SpecSkipFair ==
    SpecSkip /\ WF_vars(Enter \/ ExploreLo \/ ExploreHi \/ AddNodeCall \/ CacheStateCall \/ ReturnNode \/ Publish)

\* C28: Build terminates for every specification over finitely many
\* variables, skip directives with any SkipTo included.  Every expansion is
\* entered at a level strictly below its caller's, the recursion is never
\* deeper than N, and a Build that was started returns.
C28_BuildTerminates ==
    /\ [](\A i \in 2..Len(stack) : stack[i].level < stack[i - 1].level)
    /\ [](Len(stack) <= zvars)
    /\ (phase \in {"building", "returned"} ~> phase \in {"done", "failed"})

(***************************************************************************)
(* The order in which identifiers are assigned and the root is published   *)
(***************************************************************************)
\* C29: identifiers are assigned sequentially and the root is published
\* last.  A fresh table has Size() = 2; an AddNode that allocates returns the
\* previous Size() + 1, raises Size() by one and leaves the stored nodes as
\* they are; the valid ids are exactly 1..Size(); both children of a stored
\* node have smaller ids than the node; Root() keeps its value while a Build
\* is adding nodes and is set by Build after buildRecursive has returned,
\* in a step that adds no node, and no node is added after it.
C29_SequentialIds ==
    /\ [](pre = NoObs => Size(nt) = 2)
    /\ [][/\ Size(nt') \in {Size(nt), Size(nt) + 1}
          /\ Size(nt') = Size(nt) + 1 =>
                (stack' # << >> /\ stack'[Len(stack')].node = Size(nt) + 1)
          /\ \A id \in StoredIds(nt) : NodeAt(nt'.nodes, id) = NodeAt(nt.nodes, id)]_vars
    /\ [](\A id \in 0..(MaxId + 1) : GetNode(nt, id).ok <=> id \in 1..Size(nt))
    /\ [](\A id \in NonTerminalIds(nt) :
             NodeAt(nt.nodes, id).Lo < id /\ NodeAt(nt.nodes, id).Hi < id)
    /\ [](phase \in {"building", "returned"} => root = pre.root)
    /\ [][root' # root =>
            (phase = "returned" /\ phase' = "done" /\ root' = ret.id /\ nt' = nt)]_vars
    /\ [][(phase = "done" /\ phase' = "done") => nt' = nt]_vars

\* A Build has returned after allocating several nodes: the root is the
\* node allocated last, above both of its non-terminal children.
C29_Witness ==
    /\ phase = "done"
    /\ Size(nt) >= 5
    /\ root = Size(nt) /\ ret.id = root
    /\ NodeAt(nt.nodes, root).Lo > OneNode
    /\ NodeAt(nt.nodes, root).Hi > OneNode
    /\ NodeAt(nt.nodes, root).Lo # NodeAt(nt.nodes, root).Hi

====
